---- MODULE Spec2Model ----
(***************************************************************************)
(* USDT Vault: the ledger store (one user document, its savings goals and  *)
(* its transaction log) and the page handlers that mutate it.              *)
(*                                                                         *)
(* Amounts are whole numbers of the smallest amount the forms accept       *)
(* (0.01 USDT, the min_value of the ledger forms).  The store keeps them   *)
(* as decimal strings, str(Decimal); the handlers read them back with      *)
(* Decimal(...), which gives the same number, so a stored amount is        *)
(* modelled by the number itself.                                          *)
(*                                                                         *)
(* A handler runs inside one script run of a page: the run first reads the *)
(* user document and the goals (the "page load"), then the handler of the  *)
(* pressed button performs its store writes one after the other.  Each     *)
(* store write is one step of the model; pc[s] is the position of session  *)
(* s between the writes of its handler and loc[s] holds the handler's      *)
(* local variables.                                                        *)
(***************************************************************************)
EXTENDS Integers, Sequences, FiniteSets, TLC

VARIABLES
    balance,        \* users.balance of the user
    pin,            \* users.pin: <<>> for None, <<h>> for the bcrypt hash h
    pin_attempts,   \* users.pin_attempts
    goals,          \* savings_goals of the user: goal id -> current
    next_goal,      \* number of savings_goals documents inserted so far
    transactions,   \* the transactions collection of the user, oldest first
    pc,             \* per session: position of the script run
    loc,            \* per session: the local variables of the script run
    msg,            \* per session: the st.success / st.error / st.warning shown
    fails,          \* history: failed verify_user_pin calls since the last
                    \* successful one or the last reset_pin_attempts
    reset_pending,  \* history: reset_pin_attempts has unlocked the user and
                    \* verify_user_pin has not been called since
    fault,          \* history: "none"; "clean" once a script run has stopped
                    \* before its first write; "torn" once one has stopped
                    \* between two of its writes
    call,           \* the computation a page made last: its name, its inputs
                    \* and its result
    web3,           \* utils/blockchain.py _web3: TRUE once a connected instance
                    \* is kept, FALSE for None
    usdt_contract,  \* utils/blockchain.py _usdt_contract: TRUE once kept
    now,            \* the clock, in seconds
    blockchain_txs,         \* st.session_state.blockchain_txs
    blockchain_fetch_error, \* st.session_state.blockchain_fetch_error:
                            \* "absent", "None" or "message" for str(e)
    panel,          \* what the blockchain-history tab shows
    client,         \* utils/database.py client: FALSE for None
    db,             \* utils/database.py db: FALSE for None, TRUE for the
                    \* Database object client.usdt_vault
    users,          \* the users collection, in insertion order; the _id of a
                    \* document is its position
    session,        \* per session: st.session_state.authenticated, user_id
                    \* and username (<<>> for None)
    reg,            \* per session: the document create_user is about to
                    \* insert, between its find_one and its insert_one
    investment_plans,          \* the investment_plans collection of the user, in
                    \* insertion order
    linked_wallet_address   \* users.linked_wallet_address of the user

vars ==
    <<balance, pin, pin_attempts, goals, next_goal, transactions,
      pc, loc, msg, fails, reset_pending, fault, call,
      web3, usdt_contract, now,
      blockchain_txs, blockchain_fetch_error, panel, client, db,
      users, session, reg, investment_plans, linked_wallet_address>>

\* The ledger store and the sessions working on it.
ledger_vars ==
    <<balance, pin, pin_attempts, goals, next_goal, transactions,
      pc, loc, msg, fails, reset_pending, fault>>

\* The chain balance reader: its module globals, and the clock.
chain_vars == <<web3, usdt_contract, now>>

\* What lies outside the ledger store.
\* The session state of the blockchain-history tab.
tab_vars == <<blockchain_txs, blockchain_fetch_error, panel>>

\* What the computations of the pages and the chain reads leave alone.
\* The module globals of utils/database.py.  The ledger actions above run
\* against a store that is connected and answers.
conn_vars == <<client, db>>

\* The users collection and the sessions' login state.
acct_vars == <<users, session, reg>>

\* The investment plans and the linked wallet of the user of the ledger.
plan_vars == <<investment_plans, linked_wallet_address>>

rest_vars == <<tab_vars, conn_vars, acct_vars, plan_vars>>

env_vars == <<call, chain_vars, rest_vars>>

user_doc == <<balance, pin, pin_attempts>>

(***************************************************************************)
(* Bounds of the model.                                                    *)
(***************************************************************************)
MaxAmt == 1
MaxTx == 2
MaxGoals == 2

(***************************************************************************)
(* Program constants.                                                      *)
(***************************************************************************)
MAX_PIN_ATTEMPTS == 5
PIN_LENGTH == 6
ADDRESS_LENGTH == 42
LEDGER_MIN_VALUE == 1

Sessions == {"s1", "s2"}

(***************************************************************************)
(* Inputs.  A PIN is the sequence of the characters typed into the         *)
(* password field (max_chars = 6); a character 0..9 is a digit, 10 stands  *)
(* for a character that is not a digit.                                    *)
(***************************************************************************)
PinInputs ==
    { <<1, 2, 3, 4, 5, 6>>, <<6, 5, 4, 3, 2, 1>>, <<1, 2, 3>>,
      <<1, 2, 3, 4, 5, 10>>, <<>> }

\* An address string, by what the handlers look at: whether it starts with
\* "0x", and its length.
AddrInputs ==
    { [prefix0x |-> FALSE, len |-> 0],
      [prefix0x |-> TRUE, len |-> ADDRESS_LENGTH],
      [prefix0x |-> FALSE, len |-> ADDRESS_LENGTH],
      [prefix0x |-> TRUE, len |-> ADDRESS_LENGTH - 1] }

\* not source_address.startswith("0x") or len(source_address) != 42
address_malformed(addr) == ~addr.prefix0x \/ addr.len # ADDRESS_LENGTH

\* str.isdigit(): every character is a digit and there is at least one.
isdigit(p) == Len(p) > 0 /\ \A i \in 1..Len(p) : p[i] \in 0..9

\* len(new_pin) != 6 or not new_pin.isdigit()
pin_malformed(p) == Len(p) # PIN_LENGTH \/ ~isdigit(p)

\* bcrypt.hashpw / bcrypt.checkpw: a hash matches exactly the string hashed.
hashpw(p) == [digest |-> p]

checkpw(p, h) == h.digest = p

\* st.number_input(min_value=..., max_value=...): the values the widget returns.
number_input(min_value, max_value) == min_value..max_value

RECURSIVE SumOver(_, _)
SumOver(f, S) ==
    IF S = {} THEN 0
    ELSE LET x == CHOOSE y \in S : TRUE IN f[x] + SumOver(f, S \ {x})

\* Sum of goal.current over the goals of the user.
GoalTotal(gs) == SumOver(gs, DOMAIN gs)

RECURSIVE SumType(_, _)
\* Sum of the amounts of the records of one type in a transaction list.
SumType(txs, type) ==
    IF txs = <<>> THEN 0
    ELSE (IF Head(txs).type = type THEN Head(txs).amount ELSE 0)
         + SumType(Tail(txs), type)

NoGoals == [g \in {} |-> 0]

NoLoc ==
    [op |-> "none", user_balance |-> 0, goals |-> NoGoals, has_pin |-> FALSE,
     pin_attempts |-> 0, goal |-> 0, amount |-> 0, new_current |-> 0,
     new_balance |-> 0, address |-> [prefix0x |-> FALSE, len |-> 0],
     transactions |-> <<>>, pin_input |-> <<>>, new_pin |-> <<>>,
     verified |-> "none", at |-> ""]

NoCall == [fn |-> "none"]

\* The wallet addresses read: two well-formed ones, one of 42 characters with
\* a character that is not a hex digit, one a character short.
ChainAddrs ==
    { [id |-> "a", prefix0x |-> TRUE, len |-> ADDRESS_LENGTH, hex |-> TRUE],
      [id |-> "b", prefix0x |-> TRUE, len |-> ADDRESS_LENGTH, hex |-> TRUE],
      [id |-> "g", prefix0x |-> TRUE, len |-> ADDRESS_LENGTH, hex |-> FALSE],
      [id |-> "s", prefix0x |-> TRUE, len |-> ADDRESS_LENGTH - 1, hex |-> TRUE] }

EnvInit ==
    /\ call = NoCall
    /\ web3 = FALSE
    /\ usdt_contract = FALSE
    /\ now = 0
    /\ blockchain_txs = [state |-> "absent", txs |-> <<>>]
    /\ blockchain_fetch_error = "absent"
    /\ panel = "none"
    /\ client = FALSE
    /\ db = FALSE
    /\ users = <<>>
    /\ session = [s \in Sessions |->
                    [authenticated |-> FALSE, user_id |-> <<>>, username |-> <<>>]]
    /\ reg = [s \in Sessions |-> <<>>]
    /\ investment_plans = <<>>
    /\ linked_wallet_address = <<>>

Init ==
    /\ balance = 0
    /\ pin = <<>>
    /\ pin_attempts = 0
    /\ goals = NoGoals
    /\ next_goal = 0
    /\ transactions = <<>>
    /\ pc = [s \in Sessions |-> "idle"]
    /\ loc = [s \in Sessions |-> NoLoc]
    /\ msg = [s \in Sessions |-> ""]
    /\ fails = 0
    /\ reset_pending = FALSE
    /\ fault = "none"
    /\ EnvInit

(***************************************************************************)
(* The store operations of utils/database.py.                              *)
(***************************************************************************)

\* update_savings_goal whose update is lost.
update_savings_goal_lost(gs, g, c) == gs

\* update_savings_goal(goal_id, {'current': c}): $set on the document, if any.
update_savings_goal(gs, g, c) ==
    IF g \in DOMAIN gs THEN [gs EXCEPT ![g] = c] ELSE gs

\* delete_savings_goal(goal_id)
delete_savings_goal(gs, g) == [x \in DOMAIN gs \ {g} |-> gs[x]]

\* create_savings_goal: inserts a document with current "0" under a new id.
create_savings_goal(gs, id) == [x \in DOMAIN gs \cup {id} |-> IF x = id THEN 0 ELSE gs[x]]

\* create_transaction that inserts the record twice.
create_transaction_twice(txs, tx_type, amount, address) ==
    LET r == [type |-> tx_type, amount |-> amount, address |-> address,
              status |-> "completed"]
    IN  Append(Append(txs, r), r)

\* create_transaction that keeps nothing but the new record.
create_transaction_only(txs, tx_type, amount, address) ==
    <<[type |-> tx_type, amount |-> amount, address |-> address,
       status |-> "completed"]>>

\* create_transaction(user_id, tx_type, amount, address, "completed")
create_transaction(txs, tx_type, amount, address) ==
    Append(txs, [type |-> tx_type, amount |-> amount, address |-> address,
                 status |-> "completed"])

\* verify_user_pin that accepts whatever PIN is submitted.
verify_user_pin_any(p) == TRUE

\* verify_user_pin without the "pin_attempts >= 5" early return.
verify_user_pin_nolock(p) ==
    IF pin = <<>> THEN FALSE ELSE checkpw(p, pin[1])

\* verify_user_pin: the value returned for the PIN p.
verify_user_pin(p) ==
    IF pin = <<>> THEN FALSE
    ELSE IF pin_attempts >= MAX_PIN_ATTEMPTS THEN FALSE
    ELSE checkpw(p, pin[1])

\* verify_user_pin whose success branch leaves the counter as it is.
verify_pin_attempts_noreset(p) ==
    IF pin = <<>> THEN pin_attempts
    ELSE IF pin_attempts >= MAX_PIN_ATTEMPTS THEN pin_attempts
    ELSE IF checkpw(p, pin[1]) THEN pin_attempts
    ELSE pin_attempts + 1

\* verify_user_pin: users.pin_attempts after the call with the PIN p.
verify_pin_attempts(p) ==
    IF pin = <<>> THEN pin_attempts
    ELSE IF pin_attempts >= MAX_PIN_ATTEMPTS THEN pin_attempts
    ELSE IF checkpw(p, pin[1]) THEN 0
    ELSE pin_attempts + 1

\* The history counter after a verify_user_pin call that returned ret.
CountFail(ret) ==
    IF ret THEN 0
    ELSE IF fails < MAX_PIN_ATTEMPTS THEN fails + 1 ELSE fails

Bool(b) == IF b THEN "true" ELSE "false"

Step(s, to, l, m) ==
    /\ pc' = [pc EXCEPT ![s] = to]
    /\ loc' = [loc EXCEPT ![s] = l]
    /\ msg' = [msg EXCEPT ![s] = m]

(***************************************************************************)
(* A script run ends: the page is rendered and the session waits for the   *)
(* next interaction.                                                       *)
(***************************************************************************)
PagePcs == {"goals_page", "tx_page", "settings_page"}

Finish(s) ==
    /\ pc[s] \in PagePcs \cup {"done"}
    /\ Step(s, "idle", NoLoc, "")
    /\ UNCHANGED <<env_vars, balance, pin, pin_attempts, goals, next_goal, transactions,
                   fails, reset_pending, fault>>

(***************************************************************************)
(* pages/2_Savings_Goals.py                                                *)
(***************************************************************************)

\* The run starts: user = get_current_user(), goals = get_user_savings_goals(...),
\* user_balance = Decimal(user['balance']).
LoadGoalsPage(s) ==
    /\ pc[s] = "idle"
    /\ Step(s, "goals_page",
            [NoLoc EXCEPT !.user_balance = balance, !.goals = goals], "")
    /\ UNCHANGED <<env_vars, balance, pin, pin_attempts, goals, next_goal, transactions,
                   fails, reset_pending, fault>>

\* create_goal_form: "if submit and title".
CreateGoal(s, has_title) ==
    /\ pc[s] = "goals_page"
    /\ next_goal < MaxGoals
    /\ IF has_title
       THEN /\ goals' = create_savings_goal(goals, next_goal + 1)
            /\ next_goal' = next_goal + 1
            /\ Step(s, "done", [loc[s] EXCEPT !.op = "create_goal",
                                              !.goal = next_goal + 1],
                    "Goal created")
       ELSE /\ UNCHANGED <<goals, next_goal>>
            /\ Step(s, "done", [loc[s] EXCEPT !.op = "create_goal"], "")
    /\ UNCHANGED <<env_vars, balance, pin, pin_attempts, transactions, fails, reset_pending, fault>>

\* new_current = current + Decimal(str(deposit_amount))
deposit_new_current(current, deposit_amount) == current + deposit_amount

\* new_balance computed with the sign of the deposit reversed.
deposit_new_balance_plus(user_balance, deposit_amount) == user_balance + deposit_amount

\* new_balance = user_balance - Decimal(str(deposit_amount))
deposit_new_balance(user_balance, deposit_amount) == user_balance - deposit_amount

\* The deposit widget of a goal: min_value=0.0, max_value=float(user_balance).
deposit_input(user_balance) == number_input(0, user_balance)

\* The Deposit button of goal g with deposit_amount a in the widget.
GoalDeposit(s, g, a) ==
    /\ pc[s] = "goals_page"
    /\ g \in DOMAIN loc[s].goals
    /\ a \in deposit_input(loc[s].user_balance)
    /\ LET l == [loc[s] EXCEPT
                    !.op = "goal_deposit", !.goal = g, !.amount = a,
                    !.new_current = deposit_new_current(loc[s].goals[g], a),
                    !.new_balance = deposit_new_balance(loc[s].user_balance, a)]
       IN  IF a > 0
           THEN IF l.new_balance >= 0
                THEN Step(s, "dep_goal", l, "")
                ELSE Step(s, "done", l, "Insufficient balance")
           ELSE Step(s, "done", l, "")
    /\ UNCHANGED <<env_vars, balance, pin, pin_attempts, goals, next_goal, transactions,
                   fails, reset_pending, fault>>

\* update_savings_goal(goal_id, {'current': str(new_current)})
GoalDepositGoal(s) ==
    /\ pc[s] = "dep_goal"
    /\ goals' = update_savings_goal(goals, loc[s].goal, loc[s].new_current)
    /\ Step(s, "dep_balance", loc[s], "")
    /\ UNCHANGED <<env_vars, balance, pin, pin_attempts, next_goal, transactions,
                   fails, reset_pending, fault>>

\* update_user_balance(user_id, str(new_balance)); st.success; st.rerun
GoalDepositBalance(s) ==
    /\ pc[s] = "dep_balance"
    /\ balance' = loc[s].new_balance
    /\ Step(s, "done", loc[s], "Deposited")
    /\ UNCHANGED <<env_vars, pin, pin_attempts, goals, next_goal, transactions,
                   fails, reset_pending, fault>>

\* new_current = current - Decimal(str(withdraw_amount))
withdraw_new_current(current, withdraw_amount) == current - withdraw_amount

\* new_balance that forgets the amount taken out of the goal.
withdraw_new_balance_same(user_balance, withdraw_amount) == user_balance

\* new_balance = user_balance + Decimal(str(withdraw_amount))
withdraw_new_balance(user_balance, withdraw_amount) == user_balance + withdraw_amount

\* The withdraw widget of a goal without its max_value.
withdraw_input_nomax(current) == number_input(0, current + 1)

\* The withdraw widget of a goal: min_value=0.0, max_value=float(current).
withdraw_input(current) == number_input(0, current)

\* The Withdraw button of goal g with withdraw_amount a in the widget.
GoalWithdraw(s, g, a) ==
    /\ pc[s] = "goals_page"
    /\ g \in DOMAIN loc[s].goals
    /\ a \in withdraw_input(loc[s].goals[g])
    /\ LET l == [loc[s] EXCEPT
                    !.op = "goal_withdraw", !.goal = g, !.amount = a,
                    !.new_current = withdraw_new_current(loc[s].goals[g], a),
                    !.new_balance = withdraw_new_balance(loc[s].user_balance, a)]
       IN  IF a > 0
           THEN Step(s, "wd_goal", l, "")
           ELSE Step(s, "done", l, "")
    /\ UNCHANGED <<env_vars, balance, pin, pin_attempts, goals, next_goal, transactions,
                   fails, reset_pending, fault>>

\* update_savings_goal(goal_id, {'current': str(new_current)})
GoalWithdrawGoal(s) ==
    /\ pc[s] = "wd_goal"
    /\ goals' = update_savings_goal(goals, loc[s].goal, loc[s].new_current)
    /\ Step(s, "wd_balance", loc[s], "")
    /\ UNCHANGED <<env_vars, balance, pin, pin_attempts, next_goal, transactions,
                   fails, reset_pending, fault>>

\* update_user_balance(user_id, str(new_balance)); st.success; st.rerun
GoalWithdrawBalance(s) ==
    /\ pc[s] = "wd_balance"
    /\ balance' = loc[s].new_balance
    /\ Step(s, "done", loc[s], "Withdrew")
    /\ UNCHANGED <<env_vars, pin, pin_attempts, goals, next_goal, transactions,
                   fails, reset_pending, fault>>

\* new_balance of a deletion that refunds nothing.
delete_new_balance_norefund(user_balance, current) == user_balance

\* new_balance = user_balance + current
delete_new_balance(user_balance, current) == user_balance + current

\* The Delete button of goal g: "if current > 0" the refund is written first.
GoalDelete(s, g) ==
    /\ pc[s] = "goals_page"
    /\ g \in DOMAIN loc[s].goals
    /\ LET l == [loc[s] EXCEPT
                    !.op = "goal_delete", !.goal = g,
                    !.amount = loc[s].goals[g],
                    !.new_balance =
                        delete_new_balance(loc[s].user_balance, loc[s].goals[g])]
       IN  IF loc[s].goals[g] > 0
           THEN Step(s, "del_balance", l, "")
           ELSE Step(s, "del_goal", l, "")
    /\ UNCHANGED <<env_vars, balance, pin, pin_attempts, goals, next_goal, transactions,
                   fails, reset_pending, fault>>

\* update_user_balance(user_id, str(new_balance))
GoalDeleteBalance(s) ==
    /\ pc[s] = "del_balance"
    /\ balance' = loc[s].new_balance
    /\ Step(s, "del_goal", loc[s], "")
    /\ UNCHANGED <<env_vars, pin, pin_attempts, goals, next_goal, transactions,
                   fails, reset_pending, fault>>

\* delete_savings_goal(goal_id); st.success; st.rerun
GoalDeleteGoal(s) ==
    /\ pc[s] = "del_goal"
    /\ goals' = delete_savings_goal(goals, loc[s].goal)
    /\ Step(s, "done", loc[s], "Goal deleted")
    /\ UNCHANGED <<env_vars, balance, pin, pin_attempts, next_goal, transactions,
                   fails, reset_pending, fault>>

GoalsPage(s) ==
    \/ LoadGoalsPage(s)
    \/ \E has_title \in BOOLEAN : CreateGoal(s, has_title)
    \/ \E g \in DOMAIN loc[s].goals :
          \E a \in deposit_input(loc[s].user_balance) : GoalDeposit(s, g, a)
    \/ GoalDepositGoal(s)
    \/ GoalDepositBalance(s)
    \/ \E g \in DOMAIN loc[s].goals :
          \E a \in withdraw_input(loc[s].goals[g]) : GoalWithdraw(s, g, a)
    \/ GoalWithdrawGoal(s)
    \/ GoalWithdrawBalance(s)
    \/ \E g \in DOMAIN loc[s].goals : GoalDelete(s, g)
    \/ GoalDeleteBalance(s)
    \/ GoalDeleteGoal(s)

(***************************************************************************)
(* pages/3_Transactions.py                                                 *)
(***************************************************************************)

\* The run starts: user = get_current_user(), user_balance, and in the
\* withdraw tab has_pin = user_has_pin(...), pin_attempts = get_pin_attempts(...).
LoadTransactionsPage(s) ==
    /\ pc[s] = "idle"
    /\ Step(s, "tx_page",
            [NoLoc EXCEPT !.user_balance = balance,
                          !.transactions = transactions,
                          !.has_pin = (pin # <<>>),
                          !.pin_attempts = pin_attempts], "")
    /\ UNCHANGED <<env_vars, balance, pin, pin_attempts, goals, next_goal, transactions,
                   fails, reset_pending, fault>>

\* The amount widget of the deposit form: min_value=0.01, no max_value.
ledger_deposit_input == number_input(LEDGER_MIN_VALUE, MaxAmt)

\* new_balance of a ledger deposit that leaves the balance as it was read.
ledger_deposit_new_balance_same(user_balance, deposit_amount) == user_balance

\* new_balance = user_balance + Decimal(str(deposit_amount))
ledger_deposit_new_balance(user_balance, deposit_amount) ==
    user_balance + deposit_amount

\* The checks of the submitted deposit form: amount and address are given,
\* and the address starts with "0x" and has 42 characters.
deposit_check(deposit_amount, source_address) ==
    IF ~(deposit_amount > 0 /\ source_address.len > 0) THEN "missing"
    ELSE IF address_malformed(source_address)
    THEN "bad_address"
    ELSE "ok"

\* deposit_form submitted with amount a and source address addr.
LedgerDeposit(s, a, addr) ==
    /\ pc[s] = "tx_page"
    /\ a \in ledger_deposit_input
    /\ addr \in AddrInputs
    /\ Len(transactions) < MaxTx
    /\ LET l == [loc[s] EXCEPT
                    !.op = "ledger_deposit", !.amount = a, !.address = addr,
                    !.new_balance =
                        ledger_deposit_new_balance(loc[s].user_balance, a)]
           check == deposit_check(a, addr)
       IN  IF check = "missing"
           THEN Step(s, "done", l, "Please enter amount and source address")
           ELSE IF check = "bad_address"
           THEN Step(s, "done", l, "Please enter a valid wallet address")
           ELSE Step(s, "ldep_record", l, "")
    /\ UNCHANGED <<env_vars, balance, pin, pin_attempts, goals, next_goal, transactions,
                   fails, reset_pending, fault>>

\* create_transaction(user_id, "receive", str(deposit_amount), source_address)
LedgerDepositRecord(s) ==
    /\ pc[s] = "ldep_record"
    /\ transactions' =
          create_transaction(transactions, "receive", loc[s].amount,
                             loc[s].address)
    /\ Step(s, "ldep_balance", loc[s], "")
    /\ UNCHANGED <<env_vars, balance, pin, pin_attempts, goals, next_goal, fails, reset_pending, fault>>

\* update_user_balance(user_id, str(new_balance)); st.success; st.rerun
LedgerDepositBalance(s) ==
    /\ pc[s] = "ldep_balance"
    /\ balance' = loc[s].new_balance
    /\ Step(s, "done", loc[s], "Successfully deposited")
    /\ UNCHANGED <<env_vars, pin, pin_attempts, goals, next_goal, transactions,
                   fails, reset_pending, fault>>

\* The withdraw tab when pin_attempts >= 5: the form is not rendered.
WithdrawLocked(s) ==
    /\ pc[s] = "tx_page"
    /\ loc[s].pin_attempts >= MAX_PIN_ATTEMPTS
    /\ Step(s, "done", [loc[s] EXCEPT !.op = "ledger_withdraw"], "Account locked")
    /\ UNCHANGED <<env_vars, balance, pin, pin_attempts, goals, next_goal, transactions,
                   fails, reset_pending, fault>>

\* The amount widget of the withdraw form: min_value=0.01,
\* max_value=float(user_balance).
ledger_withdraw_input(user_balance) == number_input(LEDGER_MIN_VALUE, user_balance)

\* new_balance = user_balance - Decimal(str(withdraw_amount))
ledger_withdraw_new_balance(user_balance, withdraw_amount) ==
    user_balance - withdraw_amount

\* The PIN field of the withdraw form is rendered only "if has_pin".
withdraw_pin_input(has_pin) == IF has_pin THEN PinInputs ELSE {<<>>}

\* The checks of the withdraw form without the address format check.
withdraw_check_noformat(withdraw_amount, dest_address, user_balance) ==
    IF ~(withdraw_amount > 0 /\ dest_address.len > 0) THEN "missing"
    ELSE IF withdraw_amount > user_balance THEN "insufficient"
    ELSE "ok"

\* The checks of the submitted withdraw form that come before the PIN:
\* amount and address are given, the address starts with "0x" and has 42
\* characters, and the amount does not exceed user_balance.
withdraw_check(withdraw_amount, dest_address, user_balance) ==
    IF ~(withdraw_amount > 0 /\ dest_address.len > 0) THEN "missing"
    ELSE IF address_malformed(dest_address)
    THEN "bad_address"
    ELSE IF withdraw_amount > user_balance THEN "insufficient"
    ELSE "ok"

\* withdraw_form submitted with amount a, destination addr and PIN p.
LedgerWithdraw(s, a, addr, p) ==
    /\ pc[s] = "tx_page"
    /\ loc[s].pin_attempts < MAX_PIN_ATTEMPTS
    /\ a \in ledger_withdraw_input(loc[s].user_balance)
    /\ addr \in AddrInputs
    /\ p \in withdraw_pin_input(loc[s].has_pin)
    /\ Len(transactions) < MaxTx
    /\ LET l == [loc[s] EXCEPT
                    !.op = "ledger_withdraw", !.amount = a, !.address = addr,
                    !.new_balance =
                        ledger_withdraw_new_balance(loc[s].user_balance, a)]
           v == [l EXCEPT !.pin_input = p,
                          !.verified = Bool(verify_user_pin(p))]
           check == withdraw_check(a, addr, loc[s].user_balance)
       IN  IF check = "missing"
           THEN /\ Step(s, "done", l, "Please enter amount and destination address")
                /\ UNCHANGED <<pin_attempts, fails, reset_pending>>
           ELSE IF check = "bad_address"
           THEN /\ Step(s, "done", l, "Please enter a valid wallet address")
                /\ UNCHANGED <<pin_attempts, fails, reset_pending>>
           ELSE IF check = "insufficient"
           THEN /\ Step(s, "done", l, "Insufficient balance")
                /\ UNCHANGED <<pin_attempts, fails, reset_pending>>
           ELSE IF loc[s].has_pin
           THEN /\ pin_attempts' = verify_pin_attempts(p)
                /\ fails' = CountFail(verify_user_pin(p))
                /\ reset_pending' = FALSE
                /\ IF verify_user_pin(p)
                   THEN Step(s, "lwd_record", v, "")
                   ELSE Step(s, "done", v, "Invalid PIN")
           ELSE /\ Step(s, "lwd_record", l, "")
                /\ UNCHANGED <<pin_attempts, fails, reset_pending>>
    /\ UNCHANGED <<env_vars, balance, pin, goals, next_goal, transactions, fault>>

\* create_transaction(user_id, "send", str(withdraw_amount), dest_address)
LedgerWithdrawRecord(s) ==
    /\ pc[s] = "lwd_record"
    /\ transactions' =
          create_transaction(transactions, "send", loc[s].amount,
                             loc[s].address)
    /\ Step(s, "lwd_balance", loc[s], "")
    /\ UNCHANGED <<env_vars, balance, pin, pin_attempts, goals, next_goal, fails, reset_pending, fault>>

\* The balance write of a withdrawal computed from the stored balance at the
\* time of the write instead of the balance the script run read.
LedgerWithdrawBalanceRelative(s) ==
    /\ pc[s] = "lwd_balance"
    /\ balance' = balance - loc[s].amount
    /\ Step(s, "done", loc[s], "Successfully sent")
    /\ UNCHANGED <<env_vars, pin, pin_attempts, goals, next_goal, transactions,
                   fails, reset_pending, fault>>

\* update_user_balance(user_id, str(new_balance)); st.success; st.rerun
LedgerWithdrawBalance(s) ==
    /\ pc[s] = "lwd_balance"
    /\ balance' = loc[s].new_balance
    /\ Step(s, "done", loc[s], "Successfully sent")
    /\ UNCHANGED <<env_vars, pin, pin_attempts, goals, next_goal, transactions,
                   fails, reset_pending, fault>>

TransactionsPage(s) ==
    \/ LoadTransactionsPage(s)
    \/ \E a \in ledger_deposit_input, addr \in AddrInputs : LedgerDeposit(s, a, addr)
    \/ LedgerDepositRecord(s)
    \/ LedgerDepositBalance(s)
    \/ WithdrawLocked(s)
    \/ \E a \in ledger_withdraw_input(loc[s].user_balance), addr \in AddrInputs,
          p \in PinInputs : LedgerWithdraw(s, a, addr, p)
    \/ LedgerWithdrawRecord(s)
    \/ LedgerWithdrawBalance(s)

(***************************************************************************)
(* pages/5_Settings.py: the PIN forms.                                     *)
(***************************************************************************)

\* The run starts: user = get_current_user(), has_pin = user.get('pin') is not None.
LoadSettingsPage(s) ==
    /\ pc[s] = "idle"
    /\ Step(s, "settings_page", [NoLoc EXCEPT !.has_pin = (pin # <<>>)], "")
    /\ UNCHANGED <<env_vars, balance, pin, pin_attempts, goals, next_goal, transactions,
                   fails, reset_pending, fault>>

\* change_pin_form submitted.
ChangePin(s, current_pin, new_pin, confirm_pin) ==
    /\ pc[s] = "settings_page"
    /\ loc[s].has_pin
    /\ LET l == [loc[s] EXCEPT !.op = "change_pin"]
           v == [l EXCEPT !.pin_input = current_pin,
                          !.verified = Bool(verify_user_pin(current_pin))]
       IN  IF current_pin = <<>> \/ new_pin = <<>> \/ confirm_pin = <<>>
           THEN /\ Step(s, "done", l, "Please fill in all fields")
                /\ UNCHANGED <<pin_attempts, fails, reset_pending>>
           ELSE /\ pin_attempts' = verify_pin_attempts(current_pin)
                /\ fails' = CountFail(verify_user_pin(current_pin))
                /\ reset_pending' = FALSE
                /\ IF ~verify_user_pin(current_pin)
                   THEN Step(s, "done", v, "Current PIN is incorrect")
                   ELSE IF pin_malformed(new_pin)
                   THEN Step(s, "done", v, "PIN must be exactly 6 digits")
                   ELSE IF new_pin # confirm_pin
                   THEN Step(s, "done", v, "New PINs do not match")
                   ELSE Step(s, "pin_update", [v EXCEPT !.new_pin = new_pin], "")
    /\ UNCHANGED <<env_vars, balance, pin, goals, next_goal, transactions, fault>>

\* setup_pin_form submitted.
SetupPin(s, new_pin, confirm_pin) ==
    /\ pc[s] = "settings_page"
    /\ ~loc[s].has_pin
    /\ LET l == [loc[s] EXCEPT !.op = "setup_pin"]
       IN  IF new_pin = <<>> \/ confirm_pin = <<>>
           THEN Step(s, "done", l, "Please fill in all fields")
           ELSE IF pin_malformed(new_pin)
           THEN Step(s, "done", l, "PIN must be exactly 6 digits")
           ELSE IF new_pin # confirm_pin
           THEN Step(s, "done", l, "PINs do not match")
           ELSE Step(s, "pin_update", [l EXCEPT !.new_pin = new_pin], "")
    /\ UNCHANGED <<env_vars, balance, pin, pin_attempts, goals, next_goal, transactions,
                   fails, reset_pending, fault>>

\* update_user_pin(user_id, new_pin); st.success
UpdatePin(s) ==
    /\ pc[s] = "pin_update"
    /\ pin' = <<hashpw(loc[s].new_pin)>>
    /\ Step(s, "done", loc[s],
            IF loc[s].op = "change_pin" THEN "PIN updated successfully!"
            ELSE "PIN set successfully!")
    /\ UNCHANGED <<env_vars, balance, pin_attempts, goals, next_goal, transactions,
                   fails, reset_pending, fault>>

SettingsPage(s) ==
    \/ LoadSettingsPage(s)
    \/ \E current_pin \in PinInputs, new_pin \in PinInputs, confirm_pin \in PinInputs :
          ChangePin(s, current_pin, new_pin, confirm_pin)
    \/ \E new_pin \in PinInputs, confirm_pin \in PinInputs :
          SetupPin(s, new_pin, confirm_pin)
    \/ UpdatePin(s)

(***************************************************************************)
(* utils/database.py: reset_pin_attempts.  No page calls it; it is the     *)
(* explicit reset of the lockout, made from outside the pages.             *)
(***************************************************************************)
\* reset_pin_attempts that takes one failure off instead of all of them.
ResetPinAttemptsByOne ==
    /\ pin_attempts' = IF pin_attempts > 0 THEN pin_attempts - 1 ELSE 0
    /\ fails' = 0
    /\ reset_pending' = (reset_pending \/ (pin_attempts >= MAX_PIN_ATTEMPTS))
    /\ UNCHANGED <<env_vars, balance, pin, goals, next_goal, transactions, pc, loc, msg,
                   fault>>

ResetPinAttempts ==
    /\ pin_attempts' = 0
    /\ fails' = 0
    /\ reset_pending' = (reset_pending \/ (pin_attempts >= MAX_PIN_ATTEMPTS))
    /\ UNCHANGED <<env_vars, balance, pin, goals, next_goal, transactions, pc, loc, msg,
                   fault>>

(***************************************************************************)
(* The process stops between two store writes of a handler: the writes     *)
(* made so far stay, the rest is never made.                               *)
(***************************************************************************)
WritePcs ==
    {"dep_goal", "dep_balance", "wd_goal", "wd_balance", "del_balance",
     "del_goal", "ldep_record", "ldep_balance", "lwd_record", "lwd_balance",
     "pin_update"}

\* The handler of session s has made a store write and has another one to make.
WrittenSoFar(s) ==
    \/ pc[s] \in {"dep_balance", "wd_balance", "ldep_balance", "lwd_balance"}
    \/ pc[s] = "del_goal" /\ loc[s].amount > 0
    \/ pc[s] = "lwd_record" /\ loc[s].verified = "true"
    \/ pc[s] = "pin_update" /\ loc[s].verified = "true"

Crash(s) ==
    /\ pc[s] \in WritePcs
    /\ fault = "none"
    /\ fault' = (IF WrittenSoFar(s) THEN "torn" ELSE "clean")
    /\ Step(s, "crashed", [loc[s] EXCEPT !.at = pc[s]], "")
    /\ UNCHANGED <<env_vars, balance, pin, pin_attempts, goals, next_goal, transactions,
                   fails, reset_pending>>

\* A new session of the user replaces the one that stopped.
Restart(s) ==
    /\ pc[s] = "crashed"
    /\ Step(s, "idle", NoLoc, "")
    /\ UNCHANGED <<env_vars, balance, pin, pin_attempts, goals, next_goal, transactions,
                   fails, reset_pending, fault>>

Run(s) ==
    \/ GoalsPage(s)
    \/ TransactionsPage(s)
    \/ SettingsPage(s)
    \/ Finish(s)

(***************************************************************************)
(* Spec: one session, every script run runs to its end.                    *)
(***************************************************************************)
Next ==
    \/ Run("s1")
    \/ ResetPinAttempts

Spec == Init /\ [][Next]_vars

(***************************************************************************)
(* SpecCrash: one session on the goals and transactions pages of a user    *)
(* without a PIN, one of whose script runs may stop between two store      *)
(* writes (a single fault).                                                *)
(***************************************************************************)
NextCrash ==
    \/ GoalsPage("s1")
    \/ LoadTransactionsPage("s1")
    \/ \E a \in ledger_deposit_input, addr \in AddrInputs :
          LedgerDeposit("s1", a, addr)
    \/ LedgerDepositRecord("s1")
    \/ LedgerDepositBalance("s1")
    \/ \E a \in ledger_withdraw_input(loc["s1"].user_balance), addr \in AddrInputs :
          LedgerWithdraw("s1", a, addr, <<>>)
    \/ LedgerWithdrawRecord("s1")
    \/ LedgerWithdrawBalance("s1")
    \/ Finish("s1")
    \/ Crash("s1")
    \/ Restart("s1")

SpecCrash == Init /\ [][NextCrash]_vars

(***************************************************************************)
(* Two sessions of the same user, without a PIN.  Each script run reads    *)
(* the stored documents when it starts and writes values computed from     *)
(* what it read; the store calls of the two sessions interleave, and one   *)
(* script run may stop between two store writes.  Stale reads can multiply *)
(* funds without end, so a step is taken only while the funds stay within  *)
(* MaxFunds.                                                               *)
(***************************************************************************)
MaxFunds == MaxTx * MaxAmt

Funds(b, gs) == b + SumOver(gs, DOMAIN gs)

\* The deposit and withdraw tabs of pages/3_Transactions.py in session s.
LedgerRun(s) ==
    \/ LoadTransactionsPage(s)
    \/ \E a \in ledger_deposit_input, addr \in AddrInputs :
          LedgerDeposit(s, a, addr)
    \/ LedgerDepositRecord(s)
    \/ LedgerDepositBalance(s)
    \/ \E a \in ledger_withdraw_input(loc[s].user_balance), addr \in AddrInputs :
          LedgerWithdraw(s, a, addr, <<>>)
    \/ LedgerWithdrawRecord(s)
    \/ LedgerWithdrawBalance(s)
    \/ Finish(s)

\* SpecTwo: both sessions on the transactions page.
NextTwo ==
    /\ \E s \in Sessions : LedgerRun(s) \/ Crash(s) \/ Restart(s)
    /\ Funds(balance', goals') <= MaxFunds

SpecTwo == Init /\ [][NextTwo]_vars

\* The savings goals page of session s while the user creates a single goal.
GoalsPageOne(s) ==
    \/ LoadGoalsPage(s)
    \/ next_goal = 0 /\ (\E has_title \in BOOLEAN : CreateGoal(s, has_title))
    \/ \E g \in DOMAIN loc[s].goals :
          \E a \in deposit_input(loc[s].user_balance) : GoalDeposit(s, g, a)
    \/ GoalDepositGoal(s)
    \/ GoalDepositBalance(s)
    \/ \E g \in DOMAIN loc[s].goals :
          \E a \in withdraw_input(loc[s].goals[g]) : GoalWithdraw(s, g, a)
    \/ GoalWithdrawGoal(s)
    \/ GoalWithdrawBalance(s)
    \/ \E g \in DOMAIN loc[s].goals : GoalDelete(s, g)
    \/ GoalDeleteBalance(s)
    \/ GoalDeleteGoal(s)

\* SpecTwoGoals: session s1 on the transactions page, session s2 on the
\* savings goals page.
NextTwoGoals ==
    /\ \/ LedgerRun("s1")
       \/ GoalsPageOne("s2")
       \/ Finish("s2")
       \/ \E s \in Sessions : Crash(s) \/ Restart(s)
    /\ Funds(balance', goals') <= MaxFunds

SpecTwoGoals == Init /\ [][NextTwoGoals]_vars

(***************************************************************************)
(* Computations of the pages over stored documents.  A stored amount is a  *)
(* decimal string; a field a document may lack is <<>> when absent and     *)
(* <<v>> when it holds v.  A quotient is kept exact, as the pair of its    *)
(* numerator and denominator.                                              *)
(***************************************************************************)
MaxCurrent == 3
MaxTarget == 2
MaxPlans == 2

PROGRESS_CAP == 100
DAILY_FACTOR == 30
WEEKLY_FACTOR == 4

\* savings_goals documents, by the fields the progress is computed from.
GoalDocs ==
    [current : 0..MaxCurrent, target : {<<>>} \cup {<<t>> : t \in 0..MaxTarget}]

\* goal.get('target', '1'): the default is taken only when the key is absent.
goal_target(goal) == IF goal.target = <<>> THEN 1 ELSE goal.target[1]

\* progress = min(float(current / target * 100), 100); the Decimal division
\* raises when target is 0.
progress(goal) ==
    LET current == goal.current
        target == goal_target(goal)
    IN  IF target = 0 THEN [raised |-> TRUE, num |-> 0, den |-> 1]
        ELSE IF current * 100 >= PROGRESS_CAP * target
        THEN [raised |-> FALSE, num |-> PROGRESS_CAP, den |-> 1]
        ELSE [raised |-> FALSE, num |-> current * 100, den |-> target]

\* The goals page (or the dashboard) renders the card of one goal.
ShowGoalProgress(goal) ==
    /\ call = NoCall
    /\ call' = [fn |-> "progress", goal |-> goal, ret |-> progress(goal)]
    /\ UNCHANGED <<ledger_vars, chain_vars, rest_vars>>

Frequencies == {"daily", "weekly", "monthly"}

\* investment_plans documents: amount, frequency and the auto_invest flag
\* (active or paused).
PlanDocs == [amount : 1..MaxAmt + 1, frequency : Frequencies, auto_invest : BOOLEAN]

RECURSIVE SeqsUpTo(_, _)
SeqsUpTo(S, n) ==
    IF n = 0 THEN {<<>>}
    ELSE LET shorter == SeqsUpTo(S, n - 1)
         IN  shorter \cup {Append(q, x) : q \in shorter, x \in S}

PlanLists == SeqsUpTo(PlanDocs, MaxPlans)

\* total_monthly counting only the plans whose auto_invest is on.
RECURSIVE total_monthly_active(_)
total_monthly_active(plans) ==
    IF plans = <<>> THEN 0
    ELSE LET plan == Head(plans)
             add == IF ~plan.auto_invest THEN 0
                    ELSE IF plan.frequency = "daily" THEN plan.amount * DAILY_FACTOR
                    ELSE IF plan.frequency = "weekly" THEN plan.amount * WEEKLY_FACTOR
                    ELSE plan.amount
         IN  add + total_monthly_active(Tail(plans))

\* total_monthly: the loop over the plans.
RECURSIVE total_monthly(_)
total_monthly(plans) ==
    IF plans = <<>> THEN 0
    ELSE LET plan == Head(plans)
             add == IF plan.frequency = "daily" THEN plan.amount * DAILY_FACTOR
                    ELSE IF plan.frequency = "weekly" THEN plan.amount * WEEKLY_FACTOR
                    ELSE plan.amount
         IN  add + total_monthly(Tail(plans))

\* The investment plans page renders the estimated monthly total.
ShowMonthlyTotal(plans) ==
    /\ call = NoCall
    /\ plans # <<>>
    /\ call' = [fn |-> "total_monthly", plans |-> plans, ret |-> total_monthly(plans)]
    /\ UNCHANGED <<ledger_vars, chain_vars, rest_vars>>

(***************************************************************************)
(* SpecView: the pages compute their figures from any stored documents.    *)
(***************************************************************************)
NextView ==
    \/ \E goal \in GoalDocs : ShowGoalProgress(goal)
    \/ \E plans \in PlanLists : ShowMonthlyTotal(plans)

SpecView == Init /\ [][NextView]_vars

(***************************************************************************)
(* utils/blockchain.py: the chain balance reader.  An on-chain amount is a *)
(* whole number of base units; the model keeps amounts in units of 10^-5   *)
(* (of a coin, of a token, of a dollar), the coarsest unit in which the    *)
(* hardcoded price leaves a fraction of a cent.  An RPC call either raises *)
(* (exception, timeout, unreachable node): <<>>, or returns a value: <<v>>.*)
(***************************************************************************)
MaxUnits == 2
MaxNow == 60

BNB_PRICE_USD == 300
CACHE_TTL == 30
CENT == 1000

\* validate_address that looks at the prefix and the length only.
validate_address_lax(address) ==
    address.len > 0 /\ address.prefix0x /\ address.len = ADDRESS_LENGTH

\* re.match(r'^0x[a-fA-F0-9]{40}$', address) and Web3.to_checksum_address
validate_address(address) ==
    address.len > 0 /\ address.prefix0x /\ address.len = ADDRESS_LENGTH /\ address.hex

\* What the node does to the RPC calls of one read: the two connection
\* checks, eth_getBalance, balanceOf and decimals.
NodeOutcomes ==
    [connect1 : BOOLEAN, connect2 : BOOLEAN,
     get_balance : {<<>>} \cup {<<v>> : v \in 0..MaxUnits},
     balanceOf : {<<>>} \cup {<<v>> : v \in 0..MaxUnits},
     decimals : BOOLEAN]

\* _get_web3(): the kept instance, or a new one if is_connected() answers.
get_web3(kept, connect) ==
    [web3 |-> kept \/ connect, rpc |-> IF kept THEN 0 ELSE 1]

\* get_bnb_balance(address)
get_bnb_balance(address, kept, o) ==
    IF ~validate_address(address) THEN [ret |-> <<>>, rpc |-> 0, web3 |-> kept]
    ELSE LET w == get_web3(kept, o.connect1)
         IN  IF ~w.web3 THEN [ret |-> <<>>, rpc |-> w.rpc, web3 |-> FALSE]
             ELSE [ret |-> o.get_balance, rpc |-> w.rpc + 1, web3 |-> TRUE]

\* get_usdt_balance(address), with _get_usdt_contract()
get_usdt_balance(address, kept, contract, o) ==
    IF ~validate_address(address)
    THEN [ret |-> <<>>, rpc |-> 0, web3 |-> kept, contract |-> contract]
    ELSE LET w == IF contract THEN [web3 |-> kept, rpc |-> 0]
                  ELSE get_web3(kept, o.connect2)
             c == contract \/ w.web3
         IN  IF ~c THEN [ret |-> <<>>, rpc |-> w.rpc, web3 |-> w.web3, contract |-> FALSE]
             ELSE IF o.balanceOf = <<>>
             THEN [ret |-> <<>>, rpc |-> w.rpc + 1, web3 |-> w.web3, contract |-> TRUE]
             ELSE IF ~o.decimals
             THEN [ret |-> <<>>, rpc |-> w.rpc + 2, web3 |-> w.web3, contract |-> TRUE]
             ELSE [ret |-> o.balanceOf, rpc |-> w.rpc + 2, web3 |-> w.web3,
                   contract |-> TRUE]

\* Decimal.quantize(Decimal("0.01")): to whole cents, ties to the even cent.
quantize(x) ==
    LET q == x \div CENT
        r == x % CENT
    IN  IF 2 * r > CENT \/ (2 * r = CENT /\ q % 2 = 1) THEN (q + 1) * CENT
        ELSE q * CENT

\* total_usd = usdt + bnb * Decimal("300"), quantized.
wallet_total(usdt, bnb) == quantize(usdt + bnb * BNB_PRICE_USD)

\* get_wallet_balance that gives up when either leg fails.
get_wallet_balance_strict(address, kept, contract, o) ==
    LET n == get_bnb_balance(address, kept, o)
        t == get_usdt_balance(address, n.web3, contract, o)
    IN  [ret |-> IF n.ret = <<>> \/ t.ret = <<>> THEN <<>>
                 ELSE <<[bnb |-> n.ret[1], usdt |-> t.ret[1],
                         total_usd |-> wallet_total(t.ret[1], n.ret[1])]>>,
         rpc |-> IF validate_address(address) THEN n.rpc + t.rpc ELSE 0,
         native |-> n.ret, token |-> t.ret,
         raised |-> FALSE,
         web3 |-> t.web3, contract |-> t.contract]

\* get_wallet_balance(address): the result, the RPC calls issued, what each
\* leg fetched, and the module globals afterwards.
get_wallet_balance(address, kept, contract, o) ==
    IF ~validate_address(address)
    THEN [ret |-> <<>>, rpc |-> 0, native |-> <<>>, token |-> <<>>,
          raised |-> FALSE, web3 |-> kept, contract |-> contract]
    ELSE LET n == get_bnb_balance(address, kept, o)
             t == get_usdt_balance(address, n.web3, contract, o)
             bnb == IF n.ret = <<>> THEN 0 ELSE n.ret[1]
             usdt == IF t.ret = <<>> THEN 0 ELSE t.ret[1]
         IN  [ret |-> IF n.ret = <<>> /\ t.ret = <<>> THEN <<>>
                      ELSE <<[bnb |-> bnb, usdt |-> usdt,
                              total_usd |-> wallet_total(usdt, bnb)]>>,
              rpc |-> n.rpc + t.rpc,
              native |-> n.ret, token |-> t.ret,
              raised |-> FALSE,
              web3 |-> t.web3, contract |-> t.contract]

\* A page reads the balance of a linked wallet.
GetWalletBalance(address, o) ==
    LET r == get_wallet_balance(address, web3, usdt_contract, o)
    IN  /\ call' = [fn |-> "get_wallet_balance", address |-> address,
                    at |-> now, ret |-> r.ret, rpc |-> r.rpc,
                    native |-> r.native, token |-> r.token, raised |-> r.raised]
        /\ web3' = r.web3
        /\ usdt_contract' = r.contract
        /\ UNCHANGED <<ledger_vars, rest_vars, now>>

\* Time passes between two reads.
Advance(d) ==
    /\ now + d <= MaxNow
    /\ now' = now + d
    /\ UNCHANGED <<ledger_vars, rest_vars, call, web3, usdt_contract>>

(***************************************************************************)
(* SpecChain: the pages read wallet balances from a node that may fail any *)
(* call.                                                                   *)
(***************************************************************************)
NextChain ==
    \/ \E address \in ChainAddrs, o \in NodeOutcomes : GetWalletBalance(address, o)
    \/ \E d \in {CACHE_TTL - 1, CACHE_TTL} : Advance(d)

SpecChain == Init /\ [][NextChain]_vars

(***************************************************************************)
(* utils/blockchain.py: the explorer transaction lists.  A record of the   *)
(* explorer is kept by what the code reads of it: its timeStamp and its    *)
(* contractAddress (none for a native transfer).  A contract address is    *)
(* the contract it names and whether it is written in mixed case.          *)
(***************************************************************************)
MaxLeg == 2
MaxStamp == 2
MaxLimit == 3

USDT_CONTRACT_ADDRESS == [contract |-> "usdt", mixed |-> FALSE]

\* str.lower(); a string kept without a mark of its case is in lower case.
lower(addr) == IF "mixed" \in DOMAIN addr THEN [addr EXCEPT !.mixed = FALSE] ELSE addr

NativeRecords == [leg : {"bnb"}, timeStamp : 1..MaxStamp]

TokenRecords ==
    [leg : {"token"}, tokenSymbol : {"USDT"}, timeStamp : 1..MaxStamp,
     contractAddress : {[contract |-> "usdt", mixed |-> TRUE],
                        [contract |-> "other", mixed |-> FALSE]}]

\* What one explorer call comes to: a network error or an unparsable body
\* ("error"), a body whose status is not "1" ("rejected"), or a result list.
Responses(Records) ==
    {[kind |-> "error", result |-> <<>>], [kind |-> "rejected", result |-> <<>>]}
        \cup {[kind |-> "ok", result |-> q] : q \in SeqsUpTo(Records, MaxLeg)}

\* get_bnb_transactions(address, limit)
get_bnb_transactions(address, limit, response) ==
    IF ~validate_address(address) THEN <<>>
    ELSE IF response.kind = "ok" THEN response.result
    ELSE <<>>

IsUsdt(tx) == lower(tx.contractAddress) = lower(USDT_CONTRACT_ADDRESS)

\* get_token_transactions that keeps the transfers of every token.
get_token_transactions_all(address, limit, response) ==
    IF ~validate_address(address) THEN <<>>
    ELSE IF response.kind = "ok" THEN response.result
    ELSE <<>>

\* get_token_transactions(address, limit)
get_token_transactions(address, limit, response) ==
    IF ~validate_address(address) THEN <<>>
    ELSE IF response.kind = "ok" THEN SelectSeq(response.result, IsUsdt)
    ELSE <<>>

\* One step of the stable sort, newest first: x goes behind every record
\* that is at least as new.
InsertByStamp(sorted, x) ==
    LET n == Cardinality({i \in 1..Len(sorted) : sorted[i].timeStamp >= x.timeStamp})
    IN  SubSeq(sorted, 1, n) \o <<x>> \o SubSeq(sorted, n + 1, Len(sorted))

\* all_txs.sort(key=lambda tx: int(tx.get("timeStamp", "0")), reverse=True)
RECURSIVE sort_by_stamp(_)
sort_by_stamp(txs) ==
    IF txs = <<>> THEN <<>>
    ELSE InsertByStamp(sort_by_stamp(SubSeq(txs, 1, Len(txs) - 1)), txs[Len(txs)])

\* all_txs[:limit]
truncate(txs, limit) == SubSeq(txs, 1, IF limit < Len(txs) THEN limit ELSE Len(txs))

\* get_all_transactions that lets the failure of a leg fail the whole call.
get_all_transactions_strict(address, limit, bnb_response, token_response) ==
    IF ~validate_address(address) THEN <<>>
    ELSE IF bnb_response.kind = "error" \/ token_response.kind = "error" THEN <<>>
    ELSE truncate(sort_by_stamp(get_bnb_transactions(address, limit, bnb_response)
                                \o get_token_transactions(address, limit, token_response)),
                  limit)

\* get_all_transactions(address, limit)
get_all_transactions(address, limit, bnb_response, token_response) ==
    IF ~validate_address(address) THEN <<>>
    ELSE LET bnb_txs == get_bnb_transactions(address, limit, bnb_response)
             token_txs == get_token_transactions(address, limit, token_response)
             all_txs == bnb_txs \o token_txs
         IN  truncate(sort_by_stamp(all_txs), limit)

\* The transactions of a wallet are fetched from the explorer.
GetAllTransactions(address, limit, bnb_response, token_response) ==
    /\ call' = [fn |-> "get_all_transactions", address |-> address, limit |-> limit,
                bnb |-> bnb_response, token |-> token_response,
                ret |-> get_all_transactions(address, limit, bnb_response,
                                             token_response),
                raised |-> FALSE]
    /\ UNCHANGED <<ledger_vars, chain_vars, rest_vars>>

(***************************************************************************)
(* SpecExplorer: one fetch of the transaction lists, for any address,      *)
(* limit and explorer behaviour.                                           *)
(***************************************************************************)
NextExplorer ==
    /\ call = NoCall
    /\ \E address \in ChainAddrs, limit \in 0..MaxLimit,
          bnb_response \in Responses(NativeRecords),
          token_response \in Responses(TokenRecords) :
           GetAllTransactions(address, limit, bnb_response, token_response)

SpecExplorer == Init /\ [][NextExplorer]_vars

(***************************************************************************)
(* pages/3_Transactions.py: the blockchain-history tab of a user with a    *)
(* linked wallet.  The explorer answers with lists of at most one record,  *)
(* and a record may carry a value that is not a number.                    *)
(***************************************************************************)
HISTORY_LIMIT == 50

LinkedWallet == CHOOSE address \in ChainAddrs : address.id = "a"

TabResponses(Records) == {r \in Responses(Records) : Len(r.result) <= 1}

NoneTxs == [state |-> "None", txs |-> <<>>]

\* dict.get(key, default)
get(tx, key, default) == IF key \in DOMAIN tx THEN tx[key] ELSE default

\* The empty string, as an address.
NoAddress == [id |-> "", mixed |-> FALSE]

\* format_transaction_for_display(tx, user_address), without the amount and
\* the fields it copies.
format_transaction_for_display(tx, user_address) ==
    LET is_token == get(tx, "tokenSymbol", "") # ""
        is_sent == lower(get(tx, "from", NoAddress)) = lower(user_address)
    IN  [type |-> IF is_sent THEN "send" ELSE "receive",
         currency |-> IF is_token THEN get(tx, "tokenSymbol", "Token") ELSE "BNB",
         status |-> IF get(tx, "isError", "None") = "0" THEN "success" ELSE "failed",
         timestamp |-> get(tx, "timeStamp", 0)]

\* One run of the tab's script: the session state it leaves and the panel
\* it shows.
history_run(txs, error, refresh_clicked, bnb_response, token_response, bad_value) ==
    LET cleared == txs.state = "absent" \/ refresh_clicked
        txs1 == IF cleared THEN NoneTxs ELSE txs
        error1 == IF cleared THEN "None" ELSE error
        fetch == txs1.state = "None" /\ error1 \in {"absent", "None"}
        raw_txs == get_all_transactions(LinkedWallet, HISTORY_LIMIT,
                                        bnb_response, token_response)
        raises == raw_txs # <<>> /\ bad_value
        txs2 == IF fetch /\ ~raises
                THEN [state |-> "list",
                      txs |-> [i \in 1..Len(raw_txs) |->
                                 format_transaction_for_display(raw_txs[i],
                                                                LinkedWallet)]]
                ELSE txs1
        error2 == IF fetch /\ raises THEN "message" ELSE error1
    IN  [txs |-> txs2, error |-> error2, fetched |-> fetch,
         panel |-> IF error2 = "message" THEN "error"
                   ELSE IF txs2.state # "list" THEN "none"
                   ELSE IF txs2.txs = <<>> THEN "empty"
                   ELSE "list"]

Shown(via, r, bnb_response, token_response) ==
    /\ blockchain_txs' = r.txs
    /\ blockchain_fetch_error' = r.error
    /\ panel' = r.panel
    /\ call' = [fn |-> "history_tab", via |-> via, fetched |-> r.fetched,
                bnb |-> bnb_response.kind, token |-> token_response.kind]
    /\ UNCHANGED <<ledger_vars, chain_vars, conn_vars, acct_vars, plan_vars>>

\* The tab is opened or shown again, with or without a press of Refresh.
OpenHistoryTab(refresh_clicked, bnb_response, token_response, bad_value) ==
    Shown("open",
          history_run(blockchain_txs, blockchain_fetch_error, refresh_clicked,
                      bnb_response, token_response, bad_value),
          bnb_response, token_response)

\* Retry is pressed in the error panel: the state is cleared and the script
\* runs again.
RetryHistory(bnb_response, token_response, bad_value) ==
    /\ panel = "error"
    /\ Shown("retry",
             history_run(NoneTxs, "None", FALSE,
                         bnb_response, token_response, bad_value),
             bnb_response, token_response)

(***************************************************************************)
(* SpecHistory: the tab is shown, refreshed and retried against an         *)
(* explorer that may fail either call.                                     *)
(***************************************************************************)
NextHistory ==
    \E bnb_response \in TabResponses(NativeRecords),
       token_response \in TabResponses(TokenRecords), bad_value \in BOOLEAN :
        \/ \E refresh_clicked \in BOOLEAN :
              OpenHistoryTab(refresh_clicked, bnb_response, token_response, bad_value)
        \/ RetryHistory(bnb_response, token_response, bad_value)

SpecHistory == Init /\ [][NextHistory]_vars

(***************************************************************************)
(* SpecFormat: one explorer record, with or without its sender, its error  *)
(* flag and its token symbol, is formatted for a wallet address.           *)
(***************************************************************************)
CasedAddrs == [id : {"a", "b"}, mixed : BOOLEAN]

NoField == [key \in {} |-> 0]

Field(key, v) == IF v = <<>> THEN NoField ELSE key :> v[1]

Optional(S) == {<<>>} \cup {<<v>> : v \in S}

RawRecords ==
    {("timeStamp" :> t) @@ Field("from", f) @@ Field("isError", e)
        @@ Field("tokenSymbol", sym) :
        t \in 1..MaxStamp, f \in Optional(CasedAddrs), e \in Optional({"0", "1"}),
        sym \in Optional({"USDT", ""})}

FormatTransaction(tx, user_address) ==
    /\ call' = [fn |-> "format_transaction_for_display", tx |-> tx,
                user_address |-> user_address,
                ret |-> format_transaction_for_display(tx, user_address)]
    /\ UNCHANGED <<ledger_vars, chain_vars, rest_vars>>

NextFormat ==
    /\ call = NoCall
    /\ \E tx \in RawRecords, user_address \in CasedAddrs :
          FormatTransaction(tx, user_address)

SpecFormat == Init /\ [][NextFormat]_vars

(***************************************************************************)
(* utils/database.py: the connection.  MONGODB_URI is absent, is not a     *)
(* MongoDB URI, or is one; the server answers or does not.                 *)
(***************************************************************************)
Environments == [uri : {"absent", "malformed", "good"}, server : BOOLEAN]

\* init_db(): what it returns and the globals it leaves.
init_db(client0, db0, env) ==
    IF env.uri = "absent"
    THEN [ret |-> FALSE, client |-> client0, db |-> db0]
    ELSE IF env.uri = "malformed"          \* MongoClient(mongo_uri) raises
    THEN [ret |-> FALSE, client |-> client0, db |-> db0]
    ELSE IF ~env.server                    \* the ping raises
    THEN [ret |-> FALSE, client |-> TRUE, db |-> TRUE]
    ELSE [ret |-> TRUE, client |-> TRUE, db |-> TRUE]

\* get_db()
get_db(client0, db0, env) ==
    IF db0 = FALSE
    THEN LET r == init_db(client0, db0, env)
         IN  [ret |-> r.db, client |-> r.client, db |-> r.db,
              attempted |-> TRUE, connected |-> r.ret]
    ELSE [ret |-> db0, client |-> client0, db |-> db0,
          attempted |-> FALSE, connected |-> FALSE]

\* The store operations, each with what it returns when get_db() is None.
Sentinel ==
    [create_user |-> "None", authenticate_user |-> "None",
     get_user_by_id |-> "None", get_user_by_username |-> "None",
     update_user_balance |-> "False", update_user_pin |-> "False",
     verify_user_pin |-> "False", reset_pin_attempts |-> "False",
     get_pin_attempts |-> "0", user_has_pin |-> "False",
     create_transaction |-> "None", get_user_transactions |-> "[]",
     create_savings_goal |-> "None", get_user_savings_goals |-> "[]",
     update_savings_goal |-> "False", delete_savings_goal |-> "False",
     create_investment_plan |-> "None", get_user_investment_plans |-> "[]",
     update_investment_plan |-> "False", delete_investment_plan |-> "False",
     update_user_wallet_address |-> "False"]

StoreOps == DOMAIN Sentinel

\* The operations that only read.
Readers ==
    {"authenticate_user", "get_user_by_id", "get_user_by_username",
     "get_pin_attempts", "user_has_pin", "get_user_transactions",
     "get_user_savings_goals", "get_user_investment_plans"}

\* A store operation is called: db = get_db(); if db is None: return the
\* sentinel; otherwise the driver is asked, and raises when no server answers.
StoreCall(op, env) ==
    LET g == get_db(client, db, env)
        outcome == IF ~g.ret THEN "sentinel"
                   ELSE IF env.server THEN "result"
                   ELSE "raised"
    IN  /\ client' = g.client
        /\ db' = g.db
        /\ call' = [fn |-> "store", op |-> op, env |-> env,
                    attempted |-> g.attempted,
                    get_db |-> g.ret,
                    outcome |-> outcome,
                    ret |-> IF outcome = "sentinel" THEN Sentinel[op] ELSE outcome,
                    mutated |-> outcome = "result" /\ op \notin Readers,
                    connected |-> (call.fn = "store" /\ call.connected)
                                      \/ g.connected]
        /\ UNCHANGED <<ledger_vars, chain_vars, tab_vars, acct_vars, plan_vars>>

(***************************************************************************)
(* SpecStore: store operations are called one after the other while the    *)
(* environment and the server change between the calls.                    *)
(***************************************************************************)
NextStore == \E op \in StoreOps, env \in Environments : StoreCall(op, env)

SpecStore == Init /\ [][NextStore]_vars

(***************************************************************************)
(* utils/database.py and utils/auth.py: the users collection and the       *)
(* sessions.  A username is its letters, whether some of them are typed in *)
(* upper case, and its length; a password is its text and its length.      *)
(***************************************************************************)
MaxUsers == 2

MIN_USERNAME == 3
MIN_PASSWORD == 8

UsernameInputs ==
    { [letters |-> "alice", mixed |-> FALSE, len |-> 5],
      [letters |-> "alice", mixed |-> TRUE, len |-> 5],
      [letters |-> "bob", mixed |-> FALSE, len |-> 3],
      [letters |-> "al", mixed |-> FALSE, len |-> 2] }

PasswordInputs ==
    { [text |-> "correct-horse", len |-> 13],
      [text |-> "battery-staple", len |-> 14],
      [text |-> "short", len |-> 5] }

\* The PIN and the wallet address a settings page may store.
StoredPins == {p \in PinInputs : ~pin_malformed(p)}
StoredWallets == {<<>>} \cup {<<a>> : a \in {LinkedWallet}}

NoSession == [authenticated |-> FALSE, user_id |-> <<>>, username |-> <<>>]

\* db.users.find_one({"username": name}): the _id of the first match, 0 if none.
find_one(us, name) ==
    LET found == {i \in 1..Len(us) : us[i].username = name}
    IN  IF found = {} THEN 0
        ELSE CHOOSE i \in found : \A j \in found : i <= j

\* The document create_user inserts.
new_user(username, password, at) ==
    [username |-> lower(username), password |-> hashpw(password),
     balance |-> 0, pin |-> <<>>, pin_attempts |-> 0,
     linked_wallet_address |-> <<>>, created_at |-> at]

\* get_user_by_id(user_id)
get_user_by_id(us, user_id) ==
    IF user_id \in 1..Len(us) THEN <<us[user_id]>> ELSE <<>>

\* get_user_by_username that returns the stored document.
get_user_by_username_whole(us, username) ==
    LET i == find_one(us, lower(username))
    IN  IF i = 0 THEN <<>> ELSE <<us[i]>>

\* get_user_by_username(username)
get_user_by_username(us, username) ==
    LET i == find_one(us, lower(username))
    IN  IF i = 0 THEN <<>>
        ELSE <<[username |-> us[i].username,
                linked_wallet_address |-> us[i].linked_wallet_address,
                created_at |-> us[i].created_at]>>

\* authenticate_user(username, password): the _id of the user, 0 for None.
authenticate_user(us, username, password) ==
    LET i == find_one(us, lower(username))
    IN  IF i = 0 THEN 0
        ELSE IF checkpw(password, us[i].password) THEN i
        ELSE 0

Returned(fn, s, ret) == call' = [fn |-> fn, session |-> s, ret |-> ret]

\* register(username, password) up to the find_one of create_user.
RegisterCheck(s, username, password) ==
    /\ reg[s] = <<>>
    /\ Len(users) + Cardinality({t \in Sessions : reg[t] # <<>>}) < MaxUsers
    /\ IF \/ username.len < MIN_USERNAME
          \/ password.len < MIN_PASSWORD
          \/ find_one(users, lower(username)) # 0
       THEN /\ Returned("register", s, FALSE)
            /\ UNCHANGED reg
       ELSE /\ reg' = [reg EXCEPT ![s] = <<new_user(username, password, now)>>]
            /\ Returned("create_user", s, TRUE)
    /\ UNCHANGED <<ledger_vars, chain_vars, tab_vars, conn_vars, plan_vars, users, session>>

\* The insert_one of create_user, and register's sign-in of the new user.
RegisterInsert(s) ==
    /\ reg[s] # <<>>
    /\ users' = Append(users, reg[s][1])
    /\ session' = [session EXCEPT ![s] =
                     [authenticated |-> TRUE, user_id |-> <<Len(users) + 1>>,
                      username |-> <<reg[s][1].username>>]]
    /\ reg' = [reg EXCEPT ![s] = <<>>]
    /\ Returned("register", s, TRUE)
    /\ UNCHANGED <<ledger_vars, chain_vars, tab_vars, conn_vars, plan_vars>>

\* login(username, password)
Login(s, username, password) ==
    LET user == authenticate_user(users, username, password)
    IN  /\ reg[s] = <<>>
        /\ IF user # 0
           THEN session' = [session EXCEPT ![s] =
                              [authenticated |-> TRUE, user_id |-> <<user>>,
                               username |-> <<users[user].username>>]]
           ELSE UNCHANGED session
        /\ Returned("login", s, user # 0)
        /\ UNCHANGED <<ledger_vars, chain_vars, tab_vars, conn_vars, plan_vars, users, reg>>

\* logout that clears the authenticated flag and leaves the identity.
LogoutFlagOnly(s) ==
    /\ reg[s] = <<>>
    /\ session' = [session EXCEPT ![s].authenticated = FALSE]
    /\ Returned("logout", s, TRUE)
    /\ UNCHANGED <<ledger_vars, chain_vars, tab_vars, conn_vars, plan_vars, users, reg>>

\* logout()
Logout(s) ==
    /\ reg[s] = <<>>
    /\ session' = [session EXCEPT ![s] = NoSession]
    /\ Returned("logout", s, TRUE)
    /\ UNCHANGED <<ledger_vars, chain_vars, tab_vars, conn_vars, plan_vars, users, reg>>

\* get_current_user(): whether it returned a user.
get_current_user(us, ss) ==
    IF ~ss.authenticated \/ ss.user_id = <<>> THEN <<>>
    ELSE get_user_by_id(us, ss.user_id[1])

GetCurrentUser(s) ==
    /\ reg[s] = <<>>
    /\ Returned("get_current_user", s, get_current_user(users, session[s]) # <<>>)
    /\ UNCHANGED <<ledger_vars, chain_vars, rest_vars>>

(***************************************************************************)
(* SpecUsers: two sessions register, log in and log out; the two store     *)
(* calls of a registration may interleave with the other session's.        *)
(***************************************************************************)
NextUsers ==
    \E s \in Sessions :
        \/ \E username \in UsernameInputs, password \in PasswordInputs :
              \/ RegisterCheck(s, username, password)
              \/ Login(s, username, password)
        \/ RegisterInsert(s)
        \/ Logout(s)
        \/ GetCurrentUser(s)

SpecUsers == Init /\ [][NextUsers]_vars

(***************************************************************************)
(* The store writes of the pages of a signed-in user, and the public       *)
(* profile page.                                                           *)
(***************************************************************************)
SignedIn(s) == session[s].authenticated /\ reg[s] = <<>>

Written(s, doc) ==
    /\ users' = [users EXCEPT ![session[s].user_id[1]] = doc]
    /\ Returned("update_user", s, TRUE)
    /\ UNCHANGED <<ledger_vars, chain_vars, tab_vars, conn_vars, plan_vars, session, reg>>

\* update_user_balance(user_id, new_balance)
UpdateUserBalance(s, new_balance) ==
    /\ SignedIn(s)
    /\ Written(s, [users[session[s].user_id[1]] EXCEPT !.balance = new_balance])

\* update_user_pin(user_id, pin)
UpdateUserPin(s, new_pin) ==
    /\ SignedIn(s)
    /\ Written(s, [users[session[s].user_id[1]] EXCEPT !.pin = <<hashpw(new_pin)>>])

\* update_user_wallet_address(user_id, wallet_address)
UpdateUserWalletAddress(s, wallet_address) ==
    /\ SignedIn(s)
    /\ Written(s, [users[session[s].user_id[1]] EXCEPT
                     !.linked_wallet_address = wallet_address])

\* pages/6_Profile.py: the profile of ?user=username is looked up.
ViewProfile(username) ==
    /\ call' = [fn |-> "get_user_by_username", username |-> username,
                ret |-> get_user_by_username(users, username)]
    /\ UNCHANGED <<ledger_vars, chain_vars, rest_vars>>

(***************************************************************************)
(* SpecProfile: one session registers users and writes their documents,    *)
(* and profiles are looked up.                                             *)
(***************************************************************************)
NextProfile ==
    \/ \E username \in UsernameInputs, password \in PasswordInputs :
          RegisterCheck("s1", username, password)
    \/ RegisterInsert("s1")
    \/ \E new_balance \in 0..MaxAmt : UpdateUserBalance("s1", new_balance)
    \/ \E new_pin \in StoredPins : UpdateUserPin("s1", new_pin)
    \/ \E wallet_address \in StoredWallets :
          UpdateUserWalletAddress("s1", wallet_address)
    \/ \E username \in UsernameInputs : ViewProfile(username)

SpecProfile == Init /\ [][NextProfile]_vars

(***************************************************************************)
(* pages/4_Investment_Plans.py and the wallet section of                   *)
(* pages/5_Settings.py.  Each handler is one script run of the signed-in   *)
(* user, taken while no other run of the session is under way.  The dates  *)
(* of the plans are read on the clock now.                                 *)
(***************************************************************************)
\* create_investment_plan(user_id, name, amount, frequency, next_contribution)
create_investment_plan(ps, amount, frequency, next_contribution) ==
    Append(ps, [amount |-> amount, frequency |-> frequency,
                next_contribution |-> next_contribution, auto_invest |-> FALSE])

\* update_investment_plan(plan_id, {field: value})
update_investment_plan(ps, i, field, value) ==
    [ps EXCEPT ![i] = [ps[i] EXCEPT ![field] = value]]

\* delete_investment_plan(plan_id)
delete_investment_plan(ps, i) ==
    SubSeq(ps, 1, i - 1) \o SubSeq(ps, i + 1, Len(ps))

PlanRun(op) ==
    /\ pc["s1"] = "idle"
    /\ call' = [fn |-> op]
    /\ UNCHANGED <<ledger_vars, chain_vars, tab_vars, conn_vars, acct_vars,
                   linked_wallet_address>>

\* The create form is submitted with a name, by a user who has no plan.
CreatePlan(amount, frequency, start_date, auto_invest) ==
    /\ investment_plans = <<>>
    /\ LET created == create_investment_plan(investment_plans, amount, frequency, start_date)
       IN  investment_plans' = IF auto_invest
                    THEN update_investment_plan(created, Len(created),
                                                "auto_invest", TRUE)
                    ELSE created
    /\ PlanRun("create_plan")

\* Pause is pressed on an active plan.
PausePlan(i) ==
    /\ i \in 1..Len(investment_plans)
    /\ investment_plans[i].auto_invest
    /\ investment_plans' = update_investment_plan(investment_plans, i, "auto_invest", FALSE)
    /\ PlanRun("pause_plan")

\* Resume is pressed on a paused plan.
ResumePlan(i) ==
    /\ i \in 1..Len(investment_plans)
    /\ ~investment_plans[i].auto_invest
    /\ investment_plans' = update_investment_plan(investment_plans, i, "auto_invest", TRUE)
    /\ PlanRun("resume_plan")

\* Another amount is entered and Save is pressed.
SavePlanAmount(i, new_amount) ==
    /\ i \in 1..Len(investment_plans)
    /\ new_amount # investment_plans[i].amount
    /\ investment_plans' = update_investment_plan(investment_plans, i, "amount", new_amount)
    /\ PlanRun("save_plan")

\* Delete is pressed.
DeletePlan(i) ==
    /\ i \in 1..Len(investment_plans)
    /\ investment_plans' = delete_investment_plan(investment_plans, i)
    /\ PlanRun("delete_plan")

WalletRun(op) ==
    /\ pc["s1"] = "idle"
    /\ call' = [fn |-> op]
    /\ UNCHANGED <<ledger_vars, chain_vars, tab_vars, conn_vars, acct_vars, investment_plans>>

\* The link form is submitted.
LinkWallet(wallet_address) ==
    /\ linked_wallet_address = <<>>
    /\ IF validate_address(wallet_address)
       THEN linked_wallet_address' = <<wallet_address>>
       ELSE UNCHANGED linked_wallet_address
    /\ WalletRun("link_wallet")

\* Unlink Wallet is pressed.
UnlinkWallet ==
    /\ linked_wallet_address # <<>>
    /\ linked_wallet_address' = <<>>
    /\ WalletRun("unlink_wallet")

\* The passing of the date with the contributions of the active plans taken
\* from the balance.
PlanDatePassesPaid ==
    /\ now = 0
    /\ now' = MaxNow
    /\ balance' = IF \E i \in 1..Len(investment_plans) :
                        /\ investment_plans[i].auto_invest
                        /\ investment_plans[i].amount <= balance
                   THEN 0 ELSE balance
    /\ UNCHANGED <<pin, pin_attempts, goals, next_goal, transactions, pc, loc, msg,
                   fails, reset_pending, fault, rest_vars, call, web3, usdt_contract>>

\* The clock passes the dates the plans were created with.
PlanDatePasses ==
    /\ now = 0
    /\ now' = MaxNow
    /\ UNCHANGED <<ledger_vars, rest_vars, call, web3, usdt_contract>>

(***************************************************************************)
(* SpecPlans: one session deposits to the ledger and to a goal and keeps   *)
(* an investment plan, while time passes.                                  *)
(***************************************************************************)
NextPlans ==
    \/ LoadTransactionsPage("s1")
    \/ \E a \in ledger_deposit_input, addr \in AddrInputs :
          LedgerDeposit("s1", a, addr)
    \/ LedgerDepositRecord("s1")
    \/ LedgerDepositBalance("s1")
    \/ LoadGoalsPage("s1")
    \/ CreateGoal("s1", TRUE)
    \/ \E g \in DOMAIN loc["s1"].goals, a \in deposit_input(loc["s1"].user_balance) :
          GoalDeposit("s1", g, a)
    \/ GoalDepositGoal("s1")
    \/ GoalDepositBalance("s1")
    \/ Finish("s1")
    \/ \E amount \in number_input(1, MaxAmt), frequency \in Frequencies,
          auto_invest \in BOOLEAN :
          CreatePlan(amount, frequency, now, auto_invest)
    \/ \E i \in 1..Len(investment_plans) :
          \/ PausePlan(i)
          \/ ResumePlan(i)
          \/ \E new_amount \in number_input(1, MaxAmt + 1) : SavePlanAmount(i, new_amount)
          \/ DeletePlan(i)
    \/ PlanDatePasses

SpecPlans == Init /\ [][NextPlans]_vars

(***************************************************************************)
(* SpecWallet: one session deposits to and withdraws from the ledger and   *)
(* links and unlinks a wallet.                                             *)
(***************************************************************************)
NextWallet ==
    \/ LoadTransactionsPage("s1")
    \/ \E a \in ledger_deposit_input, addr \in AddrInputs :
          LedgerDeposit("s1", a, addr)
    \/ LedgerDepositRecord("s1")
    \/ LedgerDepositBalance("s1")
    \/ \E a \in ledger_withdraw_input(loc["s1"].user_balance), addr \in AddrInputs :
          LedgerWithdraw("s1", a, addr, <<>>)
    \/ LedgerWithdrawRecord("s1")
    \/ LedgerWithdrawBalance("s1")
    \/ Finish("s1")
    \/ \E wallet_address \in ChainAddrs : LinkWallet(wallet_address)
    \/ UnlinkWallet

SpecWallet == Init /\ [][NextWallet]_vars

(***************************************************************************)
(* Quantities the properties speak of.                                     *)
(***************************************************************************)

\* user.balance + sum of goal.current over the user's goals.
Total == balance + GoalTotal(goals)

\* The same sum over the values a script run read at its start.
TotalRead(l) == l.user_balance + GoalTotal(l.goals)

\* Sum of the 'receive' amounts minus sum of the 'send' amounts.
Books(txs) == SumType(txs, "receive") - SumType(txs, "send")

Drift == Total - Books(transactions)

Locked == pin_attempts >= MAX_PIN_ATTEMPTS

\* The step of session s calls verify_user_pin.
VerifyCalled(s) == pc[s] \in PagePcs /\ loc'[s].verified # "none"

\* The transaction record of the ledger form whose locals are l.
FormRecord(type, l) ==
    [type |-> type, amount |-> l.amount, address |-> l.address,
     status |-> "completed"]

\* An address that does not have the 0x... format with 42 characters.
Malformed(addr) == ~addr.prefix0x \/ addr.len # 42

\* An address of the form 0x followed by 40 hex digits.
WellFormed(address) ==
    address.prefix0x /\ address.len = 42 /\ address.hex

\* The number of times the record x occurs in the list txs.
Count(txs, x) == Cardinality({i \in 1..Len(txs) : txs[i] = x})

\* res holds the limit newest records of merged, newest first.
NewestOf(res, merged, limit) ==
    /\ Len(res) <= limit
    /\ Len(res) = (IF limit < Len(merged) THEN limit ELSE Len(merged))
    /\ \A i \in 1..Len(res), j \in 1..Len(res) :
          i < j => res[i].timeStamp >= res[j].timeStamp
    /\ \A i \in 1..Len(res) : Count(res, res[i]) <= Count(merged, res[i])
    /\ \A i \in 1..Len(merged) :
          Count(merged, merged[i]) > Count(res, merged[i])
              => \A j \in 1..Len(res) : merged[i].timeStamp <= res[j].timeStamp

\* The records of an explorer response, none if the call failed.
RecordsOf(response) == IF response.kind = "ok" THEN response.result ELSE <<>>

\* The records of the token list that belong to the configured contract.
UsdtOnly(txs) ==
    SelectSeq(txs, LAMBDA tx : tx.contractAddress.contract = "usdt")

\* The stores that differ from us in nothing but the password hash, the PIN
\* hash, the PIN failure counter and the balance of one user.
PrivateVariants(us) ==
    {[us EXCEPT ![i] = [us[i] EXCEPT !.password = hashpw(w), !.pin = q,
                                     !.pin_attempts = n, !.balance = b]] :
        i \in 1..Len(us),
        w \in PasswordInputs,
        q \in {<<>>} \cup {<<hashpw(x)>> : x \in StoredPins},
        n \in {0, MAX_PIN_ATTEMPTS},
        b \in 0..MaxAmt}

GoalOps == {"goal_deposit", "goal_withdraw", "goal_delete"}

LedgerOps == {"ledger_deposit", "ledger_withdraw"}

(***************************************************************************)
(* C1: once pin_attempts has reached 5, every step other than              *)
(* reset_pin_attempts leaves the counter and the PIN as they are, no       *)
(* verify_user_pin call returns true for any PIN, the correct one          *)
(* included, and no withdrawal is accepted: no session gets past the PIN   *)
(* check and no 'send' record is added.                                    *)
(***************************************************************************)
C1_LockedUntilReset ==
    [][(Locked /\ ~ResetPinAttempts) =>
          /\ pin_attempts' = pin_attempts
          /\ pin' = pin
          /\ \A p \in PinInputs :
                ~verify_user_pin(p) /\ verify_pin_attempts(p) = pin_attempts
          /\ \A s \in Sessions :
                /\ VerifyCalled(s) => loc'[s].verified = "false"
                /\ pc'[s] \notin {"lwd_record", "lwd_balance"}
          /\ SumType(transactions', "send") = SumType(transactions, "send")]_vars

\* A locked user with a PIN opened the withdraw tab and was turned away.
C1_Witness ==
    /\ Locked
    /\ pin # <<>>
    /\ pc["s1"] = "done"
    /\ loc["s1"].op = "ledger_withdraw"
    /\ msg["s1"] = "Account locked"

(***************************************************************************)
(* C2: reset_pin_attempts on a locked user with a PIN sets the counter to  *)
(* 0, and the next verify_user_pin call, if made with the correct PIN,     *)
(* returns true.                                                           *)
(***************************************************************************)
C2_ResetUnlocks ==
    [][/\ (Locked /\ pin # <<>> /\ ResetPinAttempts) =>
              (pin_attempts' = 0 /\ reset_pending')
       /\ \A s \in Sessions :
             (reset_pending /\ VerifyCalled(s) /\ pin # <<>>
                 /\ checkpw(loc'[s].pin_input, pin[1]))
             => loc'[s].verified = "true"]_vars

\* The user was locked, reset_pin_attempts has run and the correct PIN verifies.
C2_Witness ==
    /\ reset_pending
    /\ pin # <<>>
    /\ pin_attempts = 0
    /\ verify_user_pin(pin[1].digest)

(***************************************************************************)
(* C3: while the user is unlocked the stored counter equals the number of  *)
(* failed verify_user_pin calls since the last successful call or reset,   *)
(* and fewer than 5 such failures never lock the user.                     *)
(***************************************************************************)
C3_CounterCountsFailures ==
    (pin_attempts < MAX_PIN_ATTEMPTS \/ fails < MAX_PIN_ATTEMPTS)
        => pin_attempts = fails

\* Four failures in a row, counted, and the user is not locked.
C3_Witness ==
    /\ pin_attempts = 4
    /\ fails = 4
    /\ pc["s1"] = "done"
    /\ loc["s1"].verified = "false"

(***************************************************************************)
(* C4: a goal deposit of a is applied exactly when a > 0 and               *)
(* a <= user.balance; then goal.current is a higher and user.balance is a  *)
(* lower than before the run; otherwise goals and balance are unchanged.   *)
(***************************************************************************)
C4_GoalDeposit ==
    \A s \in Sessions :
        /\ pc[s] = "goals_page" =>
              (loc[s].user_balance = balance /\ loc[s].goals = goals)
        /\ (pc[s] = "done" /\ loc[s].op = "goal_deposit") =>
              LET a == loc[s].amount
                  g == loc[s].goal
                  b0 == loc[s].user_balance
                  g0 == loc[s].goals
              IN  IF a > 0 /\ a <= b0
                  THEN /\ balance = b0 - a
                       /\ goals = [g0 EXCEPT ![g] = g0[g] + a]
                       /\ msg[s] = "Deposited"
                  ELSE /\ balance = b0
                       /\ goals = g0

\* A deposit of part of the balance into a goal has been applied.
C4_Witness ==
    /\ pc["s1"] = "done"
    /\ loc["s1"].op = "goal_deposit"
    /\ msg["s1"] = "Deposited"
    /\ loc["s1"].amount > 0
    /\ balance > 0

(***************************************************************************)
(* C5: a goal withdrawal of a is applied exactly when a > 0 and            *)
(* a <= goal.current; then goal.current is a lower and user.balance is a   *)
(* higher than before the run; otherwise nothing changes; and no goal's    *)
(* current is ever negative.                                               *)
(***************************************************************************)
C5_GoalWithdraw ==
    /\ \A g \in DOMAIN goals : goals[g] >= 0
    /\ \A s \in Sessions :
          (pc[s] = "done" /\ loc[s].op = "goal_withdraw") =>
              LET a == loc[s].amount
                  g == loc[s].goal
                  b0 == loc[s].user_balance
                  g0 == loc[s].goals
              IN  IF a > 0 /\ a <= g0[g]
                  THEN /\ balance = b0 + a
                       /\ goals = [g0 EXCEPT ![g] = g0[g] - a]
                       /\ msg[s] = "Withdrew"
                  ELSE /\ balance = b0
                       /\ goals = g0

\* A withdrawal of the whole current amount of a goal has been applied.
C5_Witness ==
    /\ pc["s1"] = "done"
    /\ loc["s1"].op = "goal_withdraw"
    /\ msg["s1"] = "Withdrew"
    /\ loc["s1"].amount > 0
    /\ goals[loc["s1"].goal] = 0

(***************************************************************************)
(* C6: deleting a goal whose current amount is c removes the goal and      *)
(* leaves user.balance c higher than before the run (unchanged when        *)
(* c = 0); the refund is written while the goal document still exists.     *)
(***************************************************************************)
C6_GoalDelete ==
    \A s \in Sessions :
        LET g == loc[s].goal
            b0 == loc[s].user_balance
            g0 == loc[s].goals
        IN  /\ pc[s] = "del_balance" =>
                  (g \in DOMAIN goals /\ balance = b0 /\ g0[g] > 0)
            /\ pc[s] = "del_goal" =>
                  (g \in DOMAIN goals /\ balance = b0 + g0[g])
            /\ (pc[s] = "done" /\ loc[s].op = "goal_delete") =>
                  /\ g \notin DOMAIN goals
                  /\ goals = [x \in DOMAIN g0 \ {g} |-> g0[x]]
                  /\ balance = b0 + g0[g]

\* A goal holding funds has been deleted and its funds are in the balance.
C6_Witness ==
    /\ pc["s1"] = "done"
    /\ loc["s1"].op = "goal_delete"
    /\ loc["s1"].amount > 0
    /\ loc["s1"].goal \notin DOMAIN goals
    /\ balance = loc["s1"].user_balance + loc["s1"].amount

(***************************************************************************)
(* C7: with one session running its operations to completion,              *)
(* user.balance + the sum of goal.current is the same after a goal         *)
(* deposit, goal withdrawal or goal deletion as before it.                 *)
(***************************************************************************)
C7_TotalConserved ==
    \A s \in Sessions :
        (pc[s] = "done" /\ loc[s].op \in GoalOps) => Total = TotalRead(loc[s])

\* A goal operation has completed while two goals hold funds.
C7_Witness ==
    /\ pc["s1"] = "done"
    /\ loc["s1"].op = "goal_withdraw"
    /\ loc["s1"].amount > 0
    /\ Cardinality(DOMAIN goals) = 2
    /\ \E g \in DOMAIN goals : goals[g] > 0
(***************************************************************************)
(* C8: when the process stops between the two writes of a goal operation,  *)
(* user.balance + the sum of goal.current is left higher by the amount     *)
(* (deposit), lower by the amount (withdrawal) or higher by goal.current   *)
(* (deletion) than before the operation; and every operation completed     *)
(* afterwards carries the difference on: goal operations keep the sum and  *)
(* ledger operations move balance and books together, so the sum differs   *)
(* from the books exactly when some operation was stopped after its first  *)
(* write.                                                                  *)
(***************************************************************************)
C8_StoppedBetweenWrites ==
    /\ (\A s \in Sessions : pc[s] \in PagePcs \cup {"idle", "done", "crashed"})
          => (fault = "torn" <=> Drift # 0)
    /\ \A s \in Sessions :
        /\ (pc[s] = "crashed" /\ loc[s].at = "dep_balance") =>
              (loc[s].amount > 0 /\ Total = TotalRead(loc[s]) + loc[s].amount)
        /\ (pc[s] = "crashed" /\ loc[s].at = "wd_balance") =>
              (loc[s].amount > 0 /\ Total = TotalRead(loc[s]) - loc[s].amount)
        /\ (pc[s] = "crashed" /\ loc[s].at = "del_goal") =>
              Total = TotalRead(loc[s]) + loc[s].goals[loc[s].goal]
        /\ (pc[s] = "done" /\ loc[s].op \in GoalOps) =>
              Total = TotalRead(loc[s])
        /\ (pc[s] = "done" /\ loc[s].op \in LedgerOps) =>
              balance - loc[s].user_balance
                  = Books(transactions) - Books(loc[s].transactions)

\* After a deposit was stopped between its writes, a later goal withdrawal
\* has completed and the sum still differs from the books.
C8_Witness ==
    /\ fault = "torn"
    /\ Drift > 0
    /\ pc["s1"] = "done"
    /\ loc["s1"].op = "goal_withdraw"
    /\ msg["s1"] = "Withdrew"

(***************************************************************************)
(* C9: an accepted ledger deposit of a appends exactly one 'receive'       *)
(* record of amount a and then sets user.balance to the balance read at    *)
(* page load plus a; an accepted ledger withdrawal appends exactly one     *)
(* 'send' record and then sets the balance to the one read minus a; the    *)
(* record is in the log before the balance is written; a submission that   *)
(* is not accepted changes neither.                                        *)
(***************************************************************************)
C9_RecordThenBalance ==
    \A s \in Sessions :
        LET l == loc[s]
        IN  /\ pc[s] = "tx_page" =>
                  (l.user_balance = balance /\ l.transactions = transactions)
            /\ pc[s] \in {"ldep_record", "lwd_record"} =>
                  (transactions = l.transactions /\ balance = l.user_balance)
            /\ pc[s] = "ldep_balance" =>
                  /\ transactions = Append(l.transactions, FormRecord("receive", l))
                  /\ balance = l.user_balance
            /\ pc[s] = "lwd_balance" =>
                  /\ transactions = Append(l.transactions, FormRecord("send", l))
                  /\ balance = l.user_balance
            /\ (pc[s] = "done" /\ l.op = "ledger_deposit") =>
                  IF msg[s] = "Successfully deposited"
                  THEN /\ transactions = Append(l.transactions, FormRecord("receive", l))
                       /\ balance = l.user_balance + l.amount
                  ELSE /\ transactions = l.transactions
                       /\ balance = l.user_balance
            /\ (pc[s] = "done" /\ l.op = "ledger_withdraw") =>
                  IF msg[s] = "Successfully sent"
                  THEN /\ transactions = Append(l.transactions, FormRecord("send", l))
                       /\ balance = l.user_balance - l.amount
                  ELSE /\ transactions = l.transactions
                       /\ balance = l.user_balance

\* A ledger withdrawal has been accepted after an earlier deposit.
C9_Witness ==
    /\ pc["s1"] = "done"
    /\ loc["s1"].op = "ledger_withdraw"
    /\ msg["s1"] = "Successfully sent"
    /\ Len(transactions) = 2
    /\ transactions[1].type = "receive"
    /\ transactions[2].type = "send"

C11_InvalidNewPinChangesNothing ==
    [][\A s \in Sessions, current_pin \in PinInputs, new_pin \in PinInputs,
          confirm_pin \in PinInputs :
          (/\ \/ ChangePin(s, current_pin, new_pin, confirm_pin)
              \/ SetupPin(s, new_pin, confirm_pin)
           /\ pin_malformed(new_pin) \/ new_pin # confirm_pin)
          => (pin' = pin /\ pin_attempts' = pin_attempts)]_vars

(***************************************************************************)
(* C12: for every goal the displayed progress is min(current / target *    *)
(* 100, 100), never above 100, and no stored target makes the computation  *)
(* fail: a target of zero or an absent target counts as 1.                 *)
(***************************************************************************)
C12_ProgressForEveryTarget ==
    call.fn = "progress" =>
        LET current == call.goal.current
            target == IF call.goal.target \in {<<>>, <<0>>} THEN 1
                      ELSE call.goal.target[1]
            ret == call.ret
        IN  /\ ~ret.raised
            /\ ret.num <= PROGRESS_CAP * ret.den
            /\ IF current * 100 >= PROGRESS_CAP * target
               THEN ret.num = PROGRESS_CAP * ret.den
               ELSE ret.num * target = current * 100 * ret.den

(***************************************************************************)
(* C13: the estimated monthly total of a list of investment plans is the   *)
(* sum of the daily plans' amounts times 30, plus the weekly plans'        *)
(* amounts times 4, plus the monthly plans' amounts, active and paused     *)
(* plans alike.                                                            *)
(***************************************************************************)
C13_MonthlyTotal ==
    call.fn = "total_monthly" =>
        LET plans == call.plans
            AmountOf(f) ==
                LET idx == {i \in 1..Len(plans) : plans[i].frequency = f}
                IN  SumOver([i \in idx |-> plans[i].amount], idx)
        IN  call.ret = DAILY_FACTOR * AmountOf("daily")
                       + WEEKLY_FACTOR * AmountOf("weekly")
                       + AmountOf("monthly")

\* A paused daily plan and an active weekly plan have been totalled.
C13_Witness ==
    /\ call.fn = "total_monthly"
    /\ Len(call.plans) = 2
    /\ call.plans[1].frequency = "daily" /\ ~call.plans[1].auto_invest
    /\ call.plans[2].frequency = "weekly" /\ call.plans[2].auto_invest
    /\ call.ret = DAILY_FACTOR * call.plans[1].amount
                  + WEEKLY_FACTOR * call.plans[2].amount

(***************************************************************************)
(* C14 (as the code has it): for a valid address, when exactly one balance *)
(* leg fails, get_wallet_balance returns a result in which the failed leg  *)
(* is 0 and the other leg is the fetched value, and total_usd is           *)
(* token + native * 300 rounded to the nearest cent, a tie going to the    *)
(* even cent.                                                              *)
(***************************************************************************)
C14_PartialResultRounded ==
    (/\ call.fn = "get_wallet_balance"
     /\ WellFormed(call.address)
     /\ (call.native = <<>>) # (call.token = <<>>))
    => /\ call.ret # <<>>
       /\ LET b == call.ret[1]
              exact == b.usdt + b.bnb * 300
          IN  /\ call.token = <<>> => (b.usdt = 0 /\ b.bnb = call.native[1])
              /\ call.native = <<>> => (b.bnb = 0 /\ b.usdt = call.token[1])
              /\ b.total_usd % CENT = 0
              /\ 2 * (b.total_usd - exact) <= CENT
              /\ 2 * (exact - b.total_usd) <= CENT
              /\ (2 * (b.total_usd - exact) = CENT \/ 2 * (exact - b.total_usd) = CENT)
                    => (b.total_usd \div CENT) % 2 = 0

(***************************************************************************)
(* C14 (as stated): for a valid address, when exactly one balance leg      *)
(* fails, the result is not null, the failed leg is 0, the other leg is    *)
(* the fetched value and total_usd = token + native * 300.                 *)
(***************************************************************************)
C14_PartialResultExact ==
    (/\ call.fn = "get_wallet_balance"
     /\ WellFormed(call.address)
     /\ (call.native = <<>>) # (call.token = <<>>))
    => /\ call.ret # <<>>
       /\ LET b == call.ret[1]
          IN  /\ call.token = <<>> => (b.usdt = 0 /\ b.bnb = call.native[1])
              /\ call.native = <<>> => (b.bnb = 0 /\ b.usdt = call.token[1])
              /\ b.total_usd = b.usdt + b.bnb * 300

\* The token leg failed, the native leg fetched an amount worth a fraction
\* of a cent, and the total came out as a whole cent.
C14_Witness ==
    /\ call.fn = "get_wallet_balance"
    /\ WellFormed(call.address)
    /\ call.token = <<>>
    /\ call.native = <<2>>
    /\ call.ret # <<>>
    /\ call.ret[1].total_usd = CENT

C16_SecondReadFromCache ==
    [][\A address \in ChainAddrs, o \in NodeOutcomes :
          (/\ GetWalletBalance(address, o)
           /\ call.fn = "get_wallet_balance"
           /\ call.address = address
           /\ WellFormed(address))
          => IF now - call.at < CACHE_TTL
             THEN call'.rpc = 0 /\ call'.ret = call.ret
             ELSE call'.rpc > 0]_vars

(***************************************************************************)
(* C17: for a valid address and a limit, get_all_transactions returns at   *)
(* most limit records, newest first, each one a record of the native list  *)
(* or a record of the token list that belongs to the configured token      *)
(* contract, and they are the limit newest of those records.               *)
(***************************************************************************)
C17_NewestOfMergedLists ==
    (call.fn = "get_all_transactions" /\ WellFormed(call.address)) =>
        NewestOf(call.ret,
                 RecordsOf(call.bnb) \o UsdtOnly(RecordsOf(call.token)),
                 call.limit)

\* Both lists answered, a transfer of another token was left out and the
\* merged list was cut to the limit.
C17_Witness ==
    /\ call.fn = "get_all_transactions"
    /\ WellFormed(call.address)
    /\ call.limit = 2
    /\ Len(RecordsOf(call.bnb)) = 2
    /\ Len(RecordsOf(call.token)) = 2
    /\ Len(UsdtOnly(RecordsOf(call.token))) = 1
    /\ Len(call.ret) = 2
    /\ call.ret[1].leg = "token"
    /\ call.ret[2].leg = "bnb"

(***************************************************************************)
(* C18: when one explorer call fails and the other succeeds,               *)
(* get_all_transactions raises nothing and returns exactly the successful  *)
(* leg's records, newest first and cut to the limit; when both fail it     *)
(* returns the empty list.                                                 *)
(***************************************************************************)
C18_FailedLegIsEmpty ==
    (call.fn = "get_all_transactions" /\ WellFormed(call.address)) =>
        /\ ~call.raised
        /\ (call.bnb.kind = "error" /\ call.token.kind = "ok") =>
              NewestOf(call.ret, UsdtOnly(call.token.result), call.limit)
        /\ (call.bnb.kind = "ok" /\ call.token.kind = "error") =>
              NewestOf(call.ret, call.bnb.result, call.limit)
        /\ (call.bnb.kind = "error" /\ call.token.kind = "error") => call.ret = <<>>

\* The token call failed and the native list came back whole.
C18_Witness ==
    /\ call.fn = "get_all_transactions"
    /\ WellFormed(call.address)
    /\ call.token.kind = "error"
    /\ call.bnb.kind = "ok"
    /\ Len(call.bnb.result) = 2
    /\ call.limit = 3
    /\ Len(call.ret) = 2

(***************************************************************************)
(* C19: when an explorer call fails while the blockchain-history tab       *)
(* fetches, the tab ends in the error state (blockchain_fetch_error set,   *)
(* the error panel with Retry shown) and not in the state that says the    *)
(* wallet has no transactions; pressing Retry clears the error and fetches *)
(* again.                                                                  *)
(***************************************************************************)
C19_ExplorerFailureShowsError ==
    [][/\ (/\ call'.fn = "history_tab"
           /\ call'.fetched
           /\ (call'.bnb = "error" \/ call'.token = "error"))
          => (/\ blockchain_fetch_error' = "message"
              /\ panel' = "error")
       /\ (call'.fn = "history_tab" /\ call'.via = "retry") => call'.fetched]_vars

\* Both explorer calls failed during a fetch and the tab says the wallet has
\* no transactions.
C19_Witness ==
    /\ call.fn = "history_tab"
    /\ call.fetched
    /\ call.bnb = "error"
    /\ call.token = "error"
    /\ panel = "empty"
    /\ blockchain_fetch_error = "None"

(***************************************************************************)
(* C20: whenever the connection string is absent or the connection attempt *)
(* fails (init_db returns None), get_db returns None on that call and on   *)
(* every later call until a connection attempt succeeds, so that every     *)
(* store operation returns its failure sentinel, raises nothing and        *)
(* mutates nothing.                                                        *)
(***************************************************************************)
C20_NoConnectionGivesSentinel ==
    (call.fn = "store" /\ ~call.connected) =>
        /\ call.get_db = FALSE
        /\ call.outcome = "sentinel"
        /\ call.ret = Sentinel[call.op]
        /\ ~call.mutated

\* The connection attempt failed at the ping, get_db returned the Database
\* object all the same and the operation raised.
C20_Witness ==
    /\ call.fn = "store"
    /\ call.attempted
    /\ ~call.connected
    /\ call.env.uri = "good"
    /\ ~call.env.server
    /\ call.get_db = TRUE
    /\ call.outcome = "raised"

(***************************************************************************)
(* C21: the public profile lookup returns only public fields and does not  *)
(* depend on private ones: for two stores that differ only in a user's     *)
(* password hash, PIN hash, PIN failure counter or balance,                *)
(* get_user_by_username returns the same record; and the lookup changes no *)
(* stored state.                                                           *)
(***************************************************************************)
C21_LookupSeesPublicFieldsOnly ==
    [][\A username \in UsernameInputs :
          ViewProfile(username) =>
              /\ users' = users
              /\ \A other \in PrivateVariants(users) :
                    get_user_by_username(other, username) = call'.ret
              /\ call'.ret # <<>> =>
                    DOMAIN call'.ret[1] =
                        {"username", "linked_wallet_address", "created_at"}]_vars

\* The profile of a user who has a balance, a PIN and a linked wallet was
\* looked up under a differently cased name.
C21_Witness ==
    /\ call.fn = "get_user_by_username"
    /\ call.username.mixed
    /\ call.ret # <<>>
    /\ call.ret[1].linked_wallet_address # <<>>
    /\ \E i \in 1..Len(users) :
          /\ users[i].username = call.ret[1].username
          /\ users[i].balance > 0
          /\ users[i].pin # <<>>

(***************************************************************************)
(* C22: the ledger transaction log is append-only: every step leaves every *)
(* record of the log in place and unchanged; a record is added only by the *)
(* record write of a ledger deposit or of a ledger withdrawal, and it is   *)
(* the record of that form.                                                *)
(***************************************************************************)
C22_LogAppendOnly ==
    [][/\ Len(transactions') >= Len(transactions)
       /\ SubSeq(transactions', 1, Len(transactions)) = transactions
       /\ transactions' # transactions =>
             \E s \in Sessions :
                \/ /\ pc[s] = "ldep_record"
                   /\ transactions' =
                         Append(transactions, FormRecord("receive", loc[s]))
                \/ /\ pc[s] = "lwd_record"
                   /\ transactions' =
                         Append(transactions, FormRecord("send", loc[s]))]_vars

\* A goal and a PIN exist, the log holds a deposit, and a withdrawal has been
\* recorded behind it.
C22_Witness ==
    /\ Len(transactions) = 2
    /\ transactions[1].type = "receive"
    /\ transactions[2].type = "send"
    /\ pin # <<>>
    /\ DOMAIN goals # {}

(***************************************************************************)
(* C23: in every reachable state, also when two registrations run          *)
(* interleaved, no two user records have the same case-folded username; a  *)
(* registration whose username equals an existing one ignoring case fails, *)
(* creates no record and leaves the session unauthenticated.               *)
(***************************************************************************)
C23_UsernamesUnique ==
    [][/\ \A i \in 1..Len(users'), j \in 1..Len(users') :
             i # j => lower(users'[i].username) # lower(users'[j].username)
       /\ \A s \in Sessions, username \in UsernameInputs,
             password \in PasswordInputs :
             (/\ RegisterCheck(s, username, password)
              /\ find_one(users, lower(username)) # 0)
                 => (/\ call'.ret = FALSE
                     /\ reg'[s] = <<>>
                     /\ users' = users
                     /\ session' = session)]_vars

\* Two sessions have registered the same name, one of them in another case,
\* and both are signed in to a record of their own.
C23_Witness ==
    /\ Len(users) = 2
    /\ users[1].username = users[2].username
    /\ session["s1"].authenticated
    /\ session["s2"].authenticated
    /\ session["s1"].user_id # session["s2"].user_id

C25_DirectionAndStatus ==
    call.fn = "format_transaction_for_display" =>
        /\ call.ret.type \in {"send", "receive"}
        /\ call.ret.type = "send" <=>
              ("from" \in DOMAIN call.tx /\ call.tx.from.id = call.user_address.id)
        /\ call.ret.status \in {"failed", "success"}
        /\ call.ret.status = "failed" <=>
              ("isError" \in DOMAIN call.tx /\ call.tx.isError = "1")

\* A token transfer received by the wallet, as the token list gives it (no
\* isError field), is shown as failed.
C25_Witness ==
    /\ call.fn = "format_transaction_for_display"
    /\ "tokenSymbol" \in DOMAIN call.tx
    /\ call.tx.tokenSymbol = "USDT"
    /\ "isError" \notin DOMAIN call.tx
    /\ call.ret.currency = "USDT"
    /\ call.ret.type = "receive"
    /\ call.ret.status = "failed"

(***************************************************************************)
(* C26: user.balance >= 0 in every reachable state, after any sequence of  *)
(* ledger deposits and withdrawals and goal deposits, withdrawals and      *)
(* deletions, also when two sessions of the user interleave and when an    *)
(* operation stops between its two writes; every balance a handler is      *)
(* about to write is >= 0 as well.                                         *)
(***************************************************************************)
C26_BalanceNeverNegative ==
    /\ balance >= 0
    /\ \A s \in Sessions :
          pc[s] \in {"dep_balance", "wd_balance", "del_balance",
                     "ldep_balance", "lwd_balance"} => loc[s].new_balance >= 0

\* One operation was stopped between its writes, and a withdrawal of the
\* whole balance has completed in session s1 although session s2 changed
\* the stored balance after s1 had read it.
C26_Witness ==
    /\ fault = "torn"
    /\ balance = 0
    /\ pc["s1"] = "done"
    /\ loc["s1"].op = "ledger_withdraw"
    /\ msg["s1"] = "Successfully sent"
    /\ loc["s1"].user_balance = loc["s1"].amount
    /\ \E g \in DOMAIN goals : goals[g] > 0
    /\ Drift > 0

(***************************************************************************)
(* C27: for a user created with balance 0, with one session whose          *)
(* operations all run to completion, in every state between operations     *)
(* user.balance + the sum of goal.current equals the sum of the 'receive'  *)
(* amounts minus the sum of the 'send' amounts of the log.                 *)
(***************************************************************************)
C27_TotalEqualsBooks ==
    pc["s1"] \in PagePcs \cup {"idle", "done"} =>
        balance + GoalTotal(goals)
            = SumType(transactions, "receive") - SumType(transactions, "send")

\* Between operations: deposits were recorded, part of the funds sits in a
\* goal and part in the balance.
C27_Witness ==
    /\ pc["s1"] = "idle"
    /\ Len(transactions) = MaxTx
    /\ balance > 0
    /\ \E g \in DOMAIN goals : goals[g] > 0

(***************************************************************************)
(* C28: in every reachable state, also when two sessions of the user each  *)
(* read the balance at page load and then submit a withdrawal, the sum of  *)
(* the 'send' amounts of the log is at most the sum of the 'receive'       *)
(* amounts.                                                                *)
(***************************************************************************)
C28_SendsWithinReceives ==
    SumType(transactions, "send") <= SumType(transactions, "receive")

\* Both sessions read the same balance at page load and each has completed
\* a withdrawal of it: the log holds more sent than received.
C28_Witness ==
    /\ \A s \in Sessions :
          /\ pc[s] = "done"
          /\ loc[s].op = "ledger_withdraw"
          /\ msg[s] = "Successfully sent"
          /\ loc[s].amount = loc[s].user_balance
    /\ loc["s1"].user_balance = loc["s2"].user_balance
    /\ fault = "none"
    /\ SumType(transactions, "send") > SumType(transactions, "receive")

(***************************************************************************)
(* C29: for a user who has a PIN set, a withdrawal goes on to its writes   *)
(* only from a submission whose PIN matches the stored one while the       *)
(* failure counter is below 5; every 'send' record appended and every      *)
(* balance write of a withdrawal belongs to a withdraw action in which     *)
(* verify_user_pin returned true; a submission with a wrong PIN, or one    *)
(* made while the counter is >= 5, appends no record and leaves the        *)
(* balance as it is.                                                       *)
(***************************************************************************)
C29_SendNeedsVerifiedPin ==
    [][\A s \in Sessions :
          /\ (pin # <<>> /\ pc[s] = "tx_page" /\ pc'[s] = "lwd_record") =>
                /\ checkpw(loc'[s].pin_input, pin[1])
                /\ pin_attempts < MAX_PIN_ATTEMPTS
                /\ loc'[s].verified = "true"
          /\ (pin # <<>> /\ pc[s] = "tx_page" /\ loc'[s].op = "ledger_withdraw"
                /\ (pin_attempts >= MAX_PIN_ATTEMPTS
                      \/ ~checkpw(loc'[s].pin_input, pin[1]))) =>
                /\ pc'[s] = "done"
                /\ transactions' = transactions
                /\ balance' = balance
          /\ (pin # <<>> /\ Len(transactions') > Len(transactions)
                /\ transactions'[Len(transactions')].type = "send"
                /\ pc[s] # pc'[s]) =>
                /\ pc[s] = "lwd_record"
                /\ loc[s].verified = "true"
                /\ checkpw(loc[s].pin_input, pin[1])
          /\ (pin # <<>> /\ pc[s] = "lwd_balance" /\ pc'[s] = "done") =>
                /\ loc[s].verified = "true"
                /\ checkpw(loc[s].pin_input, pin[1])
                /\ transactions # <<>>
                /\ transactions[Len(transactions)] = FormRecord("send", loc[s])
      ]_vars

\* A user with a PIN has entered a wrong PIN, which was refused, and then
\* the right one: the withdrawal is recorded and the balance written.
C29_Witness ==
    /\ pin # <<>>
    /\ pc["s1"] = "done"
    /\ loc["s1"].op = "ledger_withdraw"
    /\ msg["s1"] = "Successfully sent"
    /\ loc["s1"].has_pin
    /\ loc["s1"].verified = "true"
    /\ loc["s1"].pin_attempts > 0
    /\ pin_attempts = 0
    /\ transactions[Len(transactions)].type = "send"

(***************************************************************************)
(* C30: in every reachable session state, authenticated = true implies     *)
(* that user_id and username are both set, to the _id and the username of  *)
(* one stored user record; a login or a registration that fails leaves     *)
(* authenticated, user_id and username as they were (and a failed          *)
(* registration stores no record); logout sets authenticated to false and  *)
(* both fields to null, after which get_current_user returns null.         *)
(***************************************************************************)
C30_SessionNamesExistingUser ==
    /\ [](\A s \in Sessions :
            session[s].authenticated =>
                /\ session[s].user_id # <<>>
                /\ session[s].username # <<>>
                /\ session[s].user_id[1] \in 1..Len(users)
                /\ session[s].username[1] = users[session[s].user_id[1]].username
                /\ get_current_user(users, session[s])
                      = <<users[session[s].user_id[1]]>>)
    /\ [][
           /\ (call'.fn \in {"login", "register"} /\ ~call'.ret) =>
                 /\ session' = session
                 /\ users' = users
           /\ (call'.fn = "logout") =>
                 /\ session'[call'.session] = NoSession
                 /\ get_current_user(users', session'[call'.session]) = <<>>
                 /\ \A t \in Sessions \ {call'.session} : session'[t] = session[t]
       ]_vars

\* A session signed in to the second user has just had a login refused and
\* is still signed in; the other session has registered and logged out.
C30_Witness ==
    /\ call.fn = "login"
    /\ ~call.ret
    /\ session[call.session].authenticated
    /\ session[call.session].user_id = <<2>>
    /\ Len(users) = 2
    /\ \E t \in Sessions : t # call.session /\ session[t] = NoSession

====
